---- MODULE Spec2Model ----
(***************************************************************************)
(* android-sync scheduling core: the per-schedule state store, the cron    *)
(* recurrence calculator, the stale job detector, the overdue selector,    *)
(* the lifecycle transitions and the check / run / reset commands.         *)
(*                                                                         *)
(* Instants are whole seconds since an arbitrary origin that lies on a     *)
(* day boundary.  Python values are tagged records: None, IntV(n), StrV(s)*)
(* and DT(v) (a datetime).  A state file holds text: absent, text that is not  *)
(* JSON, or a JSON document.                                               *)
(***************************************************************************)
EXTENDS Integers, Sequences, FiniteSets, TLC

VARIABLES
    now,        \* the host's wall clock, datetime.now()
    config,     \* the loaded Config: schedules (ordered) and the stale timeout
    files,      \* the state directory: schedule name -> content of <name>.json
    procs,      \* the host's process table: pid -> process or NoProc
    lockHeld,   \* whether some process holds an exclusive flock on check.lock
    chk,        \* the check invocations: checker -> its position and locals
    jobs,       \* the live background jobs: pid -> None or the job
    last        \* the last operation applied and what it returned

vars == <<now, config, files, procs, lockHeld, chk, jobs, last>>

----------------------------------------------------------------------------
(* Bounds of the model.                                                     *)

MaxTick == 3        \* the clock advances at most this many minutes
MaxPid == 2         \* process ids are 1..MaxPid
MaxChecks == 3      \* at most this many check invocations are started
MaxProfiles == 2    \* a schedule groups at most this many profiles

(* Program constants.                                                       *)

SecondsPerMinute == 60
SecondsPerHour == 3600
StartTolerance == 60
DefaultTimeoutHours == 24

----------------------------------------------------------------------------
(* Python values.                                                           *)

None == [t |-> "none"]
IntV(n) == [t |-> "int", n |-> n]
StrV(s) == [t |-> "str", s |-> s]
DT(v) == [t |-> "dt", v |-> v]

(* JSON values as json.load returns them.  A string is the sequence of its  *)
(* characters; a word that is only compared as a whole (a schedule name, a  *)
(* status) is a string of one token.                                        *)

JNull == [t |-> "null"]
JNum(n) == [t |-> "num", n |-> n]
JStr(s) == [t |-> "jstr", s |-> s]
JArr == [t |-> "arr"]
JObj(m) == [t |-> "obj", m |-> m]

(* File contents.                                                           *)

FAbsent == [k |-> "absent"]
FText == [k |-> "text"]
FJson(v) == [k |-> "json", v |-> v]

----------------------------------------------------------------------------
(* datetime.isoformat and datetime.fromisoformat.  The text of an instant   *)
(* is the decimal numeral of its seconds; any other text is not ISO.        *)

DigitChar == <<"0", "1", "2", "3", "4", "5", "6", "7", "8", "9">>

RECURSIVE Numeral(_)
Numeral(n) ==
    IF n < 10 THEN <<DigitChar[n + 1]>>
    ELSE Numeral(n \div 10) \o <<DigitChar[(n % 10) + 1]>>

\* isoformat(timespec="minutes"): the seconds are dropped
isoformat_minutes(d) == Numeral((d.v \div 60) * 60)

isoformat(d) == Numeral(d.v)

IsDigit(c) == \E i \in 1..10 : DigitChar[i] = c

DigitValue(c) == (CHOOSE i \in 1..10 : DigitChar[i] = c) - 1

RECURSIVE NumeralValue(_)
NumeralValue(s) ==
    IF Len(s) = 0 THEN 0
    ELSE 10 * NumeralValue(SubSeq(s, 1, Len(s) - 1)) + DigitValue(s[Len(s)])

IsIsoText(s) ==
    /\ Len(s) > 0
    /\ \A i \in 1..Len(s) : IsDigit(s[i])
    /\ (Len(s) > 1 => s[1] # "0")

\* fromisoformat(x): a datetime, or the exception it raises
fromisoformat(x) ==
    IF x.t # "jstr" THEN [exc |-> "TypeError"]
    ELSE IF ~IsIsoText(x.s) THEN [exc |-> "ValueError"]
    ELSE [exc |-> "none", val |-> DT(NumeralValue(x.s))]

\* Python truthiness of a JSON value that dict.get returned
Truthy(x) ==
    CASE x.t = "null" -> FALSE
      [] x.t = "num" -> x.n # 0
      [] x.t = "jstr" -> Len(x.s) > 0
      [] OTHER -> TRUE

----------------------------------------------------------------------------
(* Recurrence calculator.  A cron expression "M H * * *" is the set of its  *)
(* minutes and the set of its hours (wildcards, steps and lists expanded);  *)
(* the day, month and weekday fields are wildcards.                         *)

Min(S) == CHOOSE x \in S : \A y \in S : x <= y

MinuteOfHour(m) == m % 60
HourOfDay(m) == (m \div 60) % 24

\* the first trigger minute at or after `from`
NextTrigger_inclusive(expr, from) ==
    LET m0 == (from + SecondsPerMinute - 1) \div SecondsPerMinute
        h0 == m0 \div 60
        here == {x \in expr.minute : x >= MinuteOfHour(m0)}
        hNext == Min({h \in (h0 + 1)..(h0 + 24) : (h % 24) \in expr.hour})
    IN  IF HourOfDay(m0) \in expr.hour /\ here # {}
        THEN (h0 * 60 + Min(here)) * SecondsPerMinute
        ELSE (hNext * 60 + Min(expr.minute)) * SecondsPerMinute

\* croniter(expr, from).get_next: the first trigger minute after `from`
NextTrigger(expr, from) ==
    LET m0 == (from \div SecondsPerMinute) + 1
        h0 == m0 \div 60
        here == {x \in expr.minute : x >= MinuteOfHour(m0)}
        hNext == Min({h \in (h0 + 1)..(h0 + 24) : (h % 24) \in expr.hour})
    IN  IF HourOfDay(m0) \in expr.hour /\ here # {}
        THEN (h0 * 60 + Min(here)) * SecondsPerMinute
        ELSE (hNext * 60 + Min(expr.minute)) * SecondsPerMinute

calculate_next_run(cron_expr, from_time) == DT(NextTrigger(cron_expr, from_time.v))

----------------------------------------------------------------------------
(* State store.                                                             *)

TimeKeys == <<"last_run", "next_run", "started_at", "finished_at">>

ScheduleState(schedule, last_run, next_run, status, started_at, finished_at, pid) ==
    [schedule |-> schedule, last_run |-> last_run, next_run |-> next_run,
     status |-> status, started_at |-> started_at, finished_at |-> finished_at,
     pid |-> pid]

\* an initial record that is due at the instant of its creation
InitialState_due_now(schedule_name, cron_expr, t) ==
    ScheduleState(schedule_name, None, IF cron_expr # None THEN DT(t) ELSE None,
                  "pending", None, None, None)

\* the record load_state creates when there is none (or a corrupted one)
InitialState(schedule_name, cron_expr, t) ==
    ScheduleState(schedule_name, None,
                  IF cron_expr # None THEN calculate_next_run(cron_expr, DT(t)) ELSE None,
                  "pending", None, None, None)

\* a datetime field of asdict(state), as save_state leaves it for json.dump
TimeToJson(d) == IF d = None THEN JNull ELSE JStr(isoformat(d))

PidToJson(p) ==
    CASE p.t = "none" -> JNull
      [] p.t = "int" -> JNum(p.n)
      [] p.t = "str" -> JStr(p.s)

StateToJson(state) ==
    JObj([k \in {"schedule", "last_run", "next_run", "status", "started_at",
                 "finished_at", "pid"} |->
            CASE k = "schedule" -> JStr(<<state.schedule>>)
              [] k = "status" -> JStr(<<state.status>>)
              [] k = "pid" -> PidToJson(state.pid)
              [] OTHER -> TimeToJson(state[k])])

\* a save that keeps one file for all the schedules
save_state_one_file(fs, state) == [n \in DOMAIN fs |-> FJson(StateToJson(state))]

\* save_state: the store with the state's file rewritten
save_state(fs, state) == [fs EXCEPT ![state.schedule] = FJson(StateToJson(state))]

\* data.get(key)
DictGet(m, key) == IF key \in DOMAIN m THEN m[key] ELSE JNull

\* datetime.fromisoformat(data[key]) if data.get(key) else None
LoadTime(m, key) ==
    IF Truthy(DictGet(m, key)) THEN fromisoformat(m[key])
    ELSE [exc |-> "none", val |-> None]

PidFromJson(j) ==
    CASE j.t = "null" -> None
      [] j.t = "num" -> IntV(j.n)
      [] j.t = "jstr" -> StrV(j.s)

\* data[key] of a word-valued key
LoadWord(m, key) ==
    IF key \in DOMAIN m THEN [exc |-> "none", val |-> m[key].s[1]]
    ELSE [exc |-> "KeyError"]

\* the arguments of the constructor call of load_state, in the order they
\* are evaluated
StateArgs(m) ==
    <<LoadWord(m, "schedule"), LoadTime(m, "last_run"), LoadTime(m, "next_run"),
      LoadWord(m, "status"), LoadTime(m, "started_at"), LoadTime(m, "finished_at")>>

\* the constructor call: the first exception among its arguments ends it
BuildState(args, pid) ==
    IF \E i \in 1..Len(args) : args[i].exc # "none"
    THEN [exc |-> args[Min({i \in 1..Len(args) : args[i].exc # "none"})].exc]
    ELSE [exc |-> "none",
          val |-> ScheduleState(args[1].val, args[2].val, args[3].val, args[4].val,
                                args[5].val, args[6].val, pid)]

\* the state built from the document json.load returned
ParseState(doc) ==
    IF doc.t # "obj" THEN [exc |-> "TypeError"]
    ELSE BuildState(StateArgs(doc.m), PidFromJson(DictGet(doc.m, "pid")))

\* open and json.load of an existing file, then the constructor call
ParseFile(f) == IF f.k = "text" THEN [exc |-> "JSONDecodeError"] ELSE ParseState(f.v)

\* the exceptions load_state catches
Caught == {"JSONDecodeError", "KeyError", "ValueError"}

\* the initial state, saved and returned
Created(fs, fresh) ==
    [exc |-> "none", state |-> fresh, fs |-> save_state(fs, fresh), saved |-> TRUE]

\* the try block of load_state and its handler
Loaded(fs, parsed, schedule_name, cron_expr, t) ==
    IF parsed.exc = "none"
    THEN [exc |-> "none", state |-> parsed.val, fs |-> fs, saved |-> FALSE]
    ELSE IF parsed.exc \in Caught
         THEN Created(fs, InitialState(schedule_name, cron_expr, t))
    ELSE [exc |-> parsed.exc, fs |-> fs, saved |-> FALSE]

\* load_state without the existence test: the record is created every time
load_state_recreates(fs, schedule_name, cron_expr, t) ==
    Created(fs, InitialState(schedule_name, cron_expr, t))

\* load_state at instant t: the state returned (or the exception raised),
\* the store it leaves and whether it called save_state
load_state(fs, schedule_name, cron_expr, t) ==
    IF fs[schedule_name].k = "absent"
    THEN Created(fs, InitialState(schedule_name, cron_expr, t))
    ELSE Loaded(fs, ParseFile(fs[schedule_name]), schedule_name, cron_expr, t)

----------------------------------------------------------------------------
(* Stale job detector.  A process table entry is NoProc or a live process   *)
(* with its creation time and whether psutil may inspect it.  `race` is     *)
(* what happens to the process while the detector runs: nothing, or it      *)
(* exits after pid_exists and before Process(pid), or after create_time()   *)
(* and before os.kill.                                                      *)

NoProc == [alive |-> FALSE]
Proc(create_time, access) == [alive |-> TRUE, create_time |-> create_time, access |-> access]
Races == {"none", "gone_before_inspect", "gone_before_kill"}

Abs(x) == IF x < 0 THEN -x ELSE x

\* psutil.pid_exists(pid)
pid_exists(pt, pid) == pid \in DOMAIN pt /\ pt[pid].alive

Stale(killed) == [ret |-> TRUE, killed |-> killed]
NotStale == [ret |-> FALSE, killed |-> <<>>]

\* the detector with the start time tolerance applied one second early
check_stale_job_early(state, timeout_hours, pt, t, race) ==
    IF state.status # "running" THEN NotStale
    ELSE IF state.pid = None \/ state.started_at = None THEN Stale(<<>>)
    ELSE IF ~pid_exists(pt, state.pid.n) THEN Stale(<<>>)
    ELSE IF race = "gone_before_inspect" \/ pt[state.pid.n].access # "ok" THEN Stale(<<>>)
    ELSE IF Abs(pt[state.pid.n].create_time - state.started_at.v) >= StartTolerance
         THEN Stale(<<>>)
    ELSE IF t - state.started_at.v > timeout_hours * SecondsPerHour
         THEN Stale(IF race = "gone_before_kill" THEN <<>> ELSE <<state.pid.n>>)
    ELSE NotStale

\* the detector with the runtime test moved before the start time test
check_stale_job_unverified(state, timeout_hours, pt, t, race) ==
    IF state.status # "running" THEN NotStale
    ELSE IF state.pid = None \/ state.started_at = None THEN Stale(<<>>)
    ELSE IF ~pid_exists(pt, state.pid.n) THEN Stale(<<>>)
    ELSE IF t - state.started_at.v > timeout_hours * SecondsPerHour
         THEN Stale(IF race = "gone_before_kill" THEN <<>> ELSE <<state.pid.n>>)
    ELSE IF race = "gone_before_inspect" \/ pt[state.pid.n].access # "ok" THEN Stale(<<>>)
    ELSE IF Abs(pt[state.pid.n].create_time - state.started_at.v) > StartTolerance
         THEN Stale(<<>>)
    ELSE NotStale

\* the detector that takes a process it cannot inspect for the running job
check_stale_job_trusts_unreadable(state, timeout_hours, pt, t, race) ==
    IF state.status # "running" THEN NotStale
    ELSE IF state.pid = None \/ state.started_at = None THEN Stale(<<>>)
    ELSE IF ~pid_exists(pt, state.pid.n) THEN Stale(<<>>)
    ELSE IF race = "gone_before_inspect" \/ pt[state.pid.n].access # "ok" THEN NotStale
    ELSE IF Abs(pt[state.pid.n].create_time - state.started_at.v) > StartTolerance
         THEN Stale(<<>>)
    ELSE IF t - state.started_at.v > timeout_hours * SecondsPerHour
         THEN Stale(IF race = "gone_before_kill" THEN <<>> ELSE <<state.pid.n>>)
    ELSE NotStale

\* check_stale_job at instant t: what it returns and the pids it sent SIGTERM
check_stale_job(state, timeout_hours, pt, t, race) ==
    IF state.status # "running" THEN NotStale
    ELSE IF state.pid = None \/ state.started_at = None THEN Stale(<<>>)
    ELSE IF ~pid_exists(pt, state.pid.n) THEN Stale(<<>>)
    ELSE IF race = "gone_before_inspect" \/ pt[state.pid.n].access # "ok" THEN Stale(<<>>)
    ELSE IF Abs(pt[state.pid.n].create_time - state.started_at.v) > StartTolerance
         THEN Stale(<<>>)
    ELSE IF t - state.started_at.v > timeout_hours * SecondsPerHour
         THEN Stale(IF race = "gone_before_kill" THEN <<>> ELSE <<state.pid.n>>)
    ELSE NotStale

----------------------------------------------------------------------------
(* Configuration.                                                           *)

Names == {"a", "b", "m"}
Statuses == {"pending", "running", "success", "failed"}
Pids == 1..MaxPid

Cron(minute, hour) == [minute |-> minute, hour |-> hour]
EveryMinute == Cron(0..59, 0..23)                              \* "* * * * *"
EveryOtherMinute == Cron({x \in 0..59 : x % 2 = 0}, 0..23)     \* "*/2 * * * *"
DailyAtThree == Cron({0}, {3})                                 \* "0 3 * * *"
TwiceAnHourAtNight == Cron({15, 45}, {0, 23})                  \* "15,45 0,23 * * *"

Schedule(name, cron) == [name |-> name, cron |-> cron]

Config(schedules, stale_job_timeout_hours) ==
    [schedules |-> schedules, stale_job_timeout_hours |-> stale_job_timeout_hours]

\* config.schedules.get(name): the position of the schedule, 0 for none
ScheduleIndex(cfg, name) ==
    IF \E i \in 1..Len(cfg.schedules) : cfg.schedules[i].name = name
    THEN CHOOSE i \in 1..Len(cfg.schedules) : cfg.schedules[i].name = name
    ELSE 0

CronOf(cfg, name) == cfg.schedules[ScheduleIndex(cfg, name)].cron

Checkers == {"c1", "c2"}
Idle == [pc |-> "idle"]
NoChecks == [c \in Checkers |-> Idle]

Tick ==
    /\ now < MaxTick * SecondsPerMinute
    /\ now' = now + SecondsPerMinute
    /\ UNCHANGED <<config, files, procs, lockHeld, chk, jobs, last>>

----------------------------------------------------------------------------
(* Overdue selector.  An entry of the overdue list is the schedule name and *)
(* the seconds elapsed since next_run: overdue_minutes is that number       *)
(* divided by 60, which keeps order and equality.                           *)

Entry(name, overdue) == [name |-> name, overdue |-> overdue]

Passed(state, t) == state.next_run # None /\ t >= state.next_run.v

\* what one pass of the loop leaves: the store, the state, the entries
\* appended, the pids signalled and whether save_state was called
Pass(fs, state, entries, killed, saved) ==
    [fs |-> fs, state |-> state, entries |-> entries, killed |-> killed, saved |-> saved]

\* the overdue test with now > next_run in place of now >= next_run
AppendIfOverdue_strict(fs, name, state, killed, saved, t) ==
    Pass(fs, state,
         IF state.next_run # None /\ t > state.next_run.v
         THEN <<Entry(name, t - state.next_run.v)>> ELSE <<>>,
         killed, saved)

\* the overdue test that ends a pass
AppendIfOverdue(fs, name, state, killed, saved, t) ==
    Pass(fs, state,
         IF Passed(state, t) THEN <<Entry(name, t - state.next_run.v)>> ELSE <<>>,
         killed, saved)

\* a retry reset that forgets when the failed attempt started
Pending_clears_start(state) == [state EXCEPT !.status = "pending", !.started_at = None]

\* a failed record whose next_run has passed is saved as pending
Pending(state) == [state EXCEPT !.status = "pending"]

\* the pass with the reset of a failed record left out
ResetIfRetryTime_no_reset(fs, name, state, killed, saved, t) ==
    AppendIfOverdue(fs, name, state, killed, saved, t)

ResetIfRetryTime(fs, name, state, killed, saved, t) ==
    IF state.status = "failed" /\ Passed(state, t)
    THEN AppendIfOverdue(save_state(fs, Pending(state)), name, Pending(state), killed, TRUE, t)
    ELSE AppendIfOverdue(fs, name, state, killed, saved, t)

\* the pass with the test for a running record left out
SkipIfRunning_never(fs, name, state, killed, saved, t) ==
    ResetIfRetryTime(fs, name, state, killed, saved, t)

\* a record still running is skipped
SkipIfRunning(fs, name, state, killed, saved, t) ==
    IF state.status = "running" THEN Pass(fs, state, <<>>, killed, saved)
    ELSE ResetIfRetryTime(fs, name, state, killed, saved, t)

\* the stale record saved as failed with its pid left in place
Failed_keeps_pid(state, t) ==
    [state EXCEPT !.status = "failed", !.finished_at = DT(t)]

\* a stale record is saved as failed
Failed(state, t) ==
    [state EXCEPT !.status = "failed", !.finished_at = DT(t), !.pid = None]

AfterStaleCheck(fs, name, state, stale, t) ==
    IF stale.ret
    THEN SkipIfRunning(save_state(fs, Failed(state, t)), name, Failed(state, t),
                       stale.killed, TRUE, t)
    ELSE SkipIfRunning(fs, name, state, stale.killed, FALSE, t)

\* The body of the loop of get_overdue_schedules after load_state returned
\* `state`: `t` is the instant the scan took as now, `tc` the instant
\* check_stale_job reads.
ReconcileOne(fs, name, state, timeout_hours, pt, t, tc, race) ==
    AfterStaleCheck(fs, name, state, check_stale_job(state, timeout_hours, pt, tc, race), t)

\* the processes left after SIGTERM reached those in `killed`
Terminate(pt, killed) ==
    [p \in DOMAIN pt |-> IF \E i \in 1..Len(killed) : killed[i] = p THEN NoProc ELSE pt[p]]

\* list.sort(key=lambda x: x[1], reverse=True): stable, largest first
RECURSIVE InsertEntry_unstable(_, _)
InsertEntry_unstable(sorted, e) ==
    IF sorted = <<>> THEN <<e>>
    ELSE IF Head(sorted).overdue > e.overdue
         THEN <<Head(sorted)>> \o InsertEntry_unstable(Tail(sorted), e)
    ELSE <<e>> \o sorted

RECURSIVE InsertEntry(_, _)
InsertEntry(sorted, e) ==
    IF sorted = <<>> THEN <<e>>
    ELSE IF Head(sorted).overdue >= e.overdue
         THEN <<Head(sorted)>> \o InsertEntry(Tail(sorted), e)
    ELSE <<e>> \o sorted

RECURSIVE SortOverdue(_)
SortOverdue(overdue) ==
    IF overdue = <<>> THEN <<>>
    ELSE InsertEntry(SortOverdue(SubSeq(overdue, 1, Len(overdue) - 1)), overdue[Len(overdue)])

\* the result of the scan so far, with what one more pass left
Accumulate(acc, pass) ==
    [exc |-> "none", fs |-> pass.fs, overdue |-> acc.overdue \o pass.entries,
     killed |-> acc.killed \o pass.killed]

\* a pass of the loop after load_state returned (or raised) `ld`
ScanLoaded(cfg, sd, acc, ld, pt, t) ==
    IF ld.exc # "none" THEN [acc EXCEPT !.exc = ld.exc]
    ELSE Accumulate(acc, ReconcileOne(ld.fs, sd.name, ld.state, cfg.stale_job_timeout_hours,
                                      Terminate(pt, acc.killed), t, t, "none"))

\* a pass of the loop that does not pass manual schedules by
ScanStep_no_skip(cfg, sd, acc, pt, t) ==
    IF acc.exc # "none" THEN acc
    ELSE ScanLoaded(cfg, sd, acc, load_state(acc.fs, sd.name, sd.cron, t), pt, t)

\* one pass of the loop of get_overdue_schedules, for schedule sd
ScanStep(cfg, sd, acc, pt, t) ==
    IF acc.exc # "none" \/ sd.cron = None THEN acc
    ELSE ScanLoaded(cfg, sd, acc, load_state(acc.fs, sd.name, sd.cron, t), pt, t)

\* The loop of get_overdue_schedules from schedule i on, run without
\* interruption at instant t on the accumulated result acc.
RECURSIVE ScanFrom(_, _, _, _, _)
ScanFrom(cfg, i, acc, pt, t) ==
    IF i > Len(cfg.schedules) THEN acc
    ELSE ScanFrom(cfg, i + 1, ScanStep(cfg, cfg.schedules[i], acc, pt, t), pt, t)

Sorted(r) == [r EXCEPT !.overdue = SortOverdue(r.overdue)]

\* get_overdue_schedules at instant t: the sorted list (or the exception),
\* the store it leaves and the pids it signalled
get_overdue_schedules(cfg, fs, pt, t) ==
    Sorted(ScanFrom(cfg, 1, [exc |-> "none", fs |-> fs, overdue |-> <<>>, killed |-> <<>>],
                    pt, t))

----------------------------------------------------------------------------
(* Lifecycle transitions and the reset command.  Each gives the exception   *)
(* raised ("none" for a normal return) and the store it leaves.             *)

Raised(exc, fs) == [exc |-> exc, fs |-> fs]
Saved(fs, state) == [exc |-> "none", fs |-> save_state(fs, state)]

\* the started state with finished_at left as it was
Started_keeps_finished_at(state, pid, t) ==
    [state EXCEPT !.status = "running", !.started_at = DT(t), !.pid = IntV(pid)]

Started(state, pid, t) ==
    [state EXCEPT !.status = "running", !.started_at = DT(t), !.pid = IntV(pid),
                  !.finished_at = None]

StartLoaded(ld, pid, t) ==
    IF ld.exc # "none" THEN Raised(ld.exc, ld.fs)
    ELSE Saved(ld.fs, Started(ld.state, pid, t))

\* update_state_on_start called at instant t by process pid
update_state_on_start(fs, cfg, schedule_name, pid, t) ==
    IF ScheduleIndex(cfg, schedule_name) = 0 THEN Raised("ValueError", fs)
    ELSE StartLoaded(load_state(fs, schedule_name, CronOf(cfg, schedule_name), t), pid, t)

\* the finished state with the pid left in the record
Finished_keeps_pid(state, cron, success, t) ==
    IF success
    THEN [state EXCEPT !.finished_at = DT(t), !.status = "success", !.last_run = DT(t),
                       !.next_run = IF cron # None THEN calculate_next_run(cron, DT(t))
                                    ELSE state.next_run]
    ELSE [state EXCEPT !.finished_at = DT(t), !.status = "failed"]

\* the finished state with next_run left as it was on success
Finished_keeps_next_run(state, cron, success, t) ==
    IF success
    THEN [state EXCEPT !.finished_at = DT(t), !.status = "success", !.last_run = DT(t),
                       !.pid = None]
    ELSE [state EXCEPT !.finished_at = DT(t), !.status = "failed", !.pid = None]

\* the finished state with next_run recomputed on failure as well
Finished_reschedules_failure(state, cron, success, t) ==
    [state EXCEPT !.finished_at = DT(t),
                  !.status = IF success THEN "success" ELSE "failed",
                  !.last_run = IF success THEN DT(t) ELSE state.last_run,
                  !.next_run = IF cron # None THEN calculate_next_run(cron, DT(t))
                               ELSE state.next_run,
                  !.pid = None]

\* the finished state with next_run set on success for a manual schedule too
Finished_schedules_manual(state, cron, success, t) ==
    IF success
    THEN [state EXCEPT !.finished_at = DT(t), !.status = "success", !.last_run = DT(t),
                       !.next_run = IF cron # None THEN calculate_next_run(cron, DT(t))
                                    ELSE DT(t),
                       !.pid = None]
    ELSE [state EXCEPT !.finished_at = DT(t), !.status = "failed", !.pid = None]

Finished(state, cron, success, t) ==
    IF success
    THEN [state EXCEPT !.finished_at = DT(t), !.status = "success", !.last_run = DT(t),
                       !.next_run = IF cron # None THEN calculate_next_run(cron, DT(t))
                                    ELSE state.next_run,
                       !.pid = None]
    ELSE [state EXCEPT !.finished_at = DT(t), !.status = "failed", !.pid = None]

FinishLoaded(ld, cron, success, t) ==
    IF ld.exc # "none" THEN Raised(ld.exc, ld.fs)
    ELSE Saved(ld.fs, Finished(ld.state, cron, success, t))

\* update_state_on_finish called at instant t
update_state_on_finish(fs, cfg, schedule_name, success, t) ==
    IF ScheduleIndex(cfg, schedule_name) = 0 THEN Raised("ValueError", fs)
    ELSE FinishLoaded(load_state(fs, schedule_name, CronOf(cfg, schedule_name), t),
                      CronOf(cfg, schedule_name), success, t)

ResetState(state, cron, t) ==
    [state EXCEPT !.status = "pending", !.pid = None, !.started_at = None,
                  !.finished_at = None,
                  !.next_run = IF cron # None THEN calculate_next_run(cron, DT(t))
                               ELSE None]

ResetLoaded(ld, cron, t) ==
    IF ld.exc # "none" THEN [exc |-> ld.exc, rc |-> 1, fs |-> ld.fs]
    ELSE [exc |-> "none", rc |-> 0, fs |-> save_state(ld.fs, ResetState(ld.state, cron, t))]

\* cmd_reset that takes an unknown name for a success
cmd_reset_unknown_ok(fs, cfg, schedule_name, t) ==
    IF ScheduleIndex(cfg, schedule_name) = 0 THEN [exc |-> "none", rc |-> 0, fs |-> fs]
    ELSE ResetLoaded(load_state(fs, schedule_name, CronOf(cfg, schedule_name), t),
                     CronOf(cfg, schedule_name), t)

\* cmd_reset at instant t: the exit code and the store
cmd_reset(fs, cfg, schedule_name, t) ==
    IF ScheduleIndex(cfg, schedule_name) = 0 THEN [exc |-> "none", rc |-> 1, fs |-> fs]
    ELSE ResetLoaded(load_state(fs, schedule_name, CronOf(cfg, schedule_name), t),
                     CronOf(cfg, schedule_name), t)

\* cmd_status after load_state returned (or raised) `ld` for schedule name:
\* the exception ends the command, otherwise the block of the schedule is
\* printed
StatusLoaded(acc, name, ld) ==
    IF ld.exc # "none" THEN [exc |-> ld.exc, fs |-> ld.fs, reported |-> acc.reported]
    ELSE [exc |-> "none", fs |-> ld.fs, reported |-> Append(acc.reported, name)]

\* the loop of cmd_status from the i-th schedule on
RECURSIVE StatusFrom(_, _, _, _)
StatusFrom(cfg, i, acc, t) ==
    IF i > Len(cfg.schedules) \/ acc.exc # "none" THEN acc
    ELSE StatusFrom(cfg, i + 1,
                    StatusLoaded(acc, cfg.schedules[i].name,
                                 load_state(acc.fs, cfg.schedules[i].name,
                                            cfg.schedules[i].cron, t)),
                    t)

\* cmd_status at instant t: the exception it raised ("none" when it returned
\* 0), the schedules whose block it printed and the store it leaves
cmd_status(fs, cfg, t) ==
    StatusFrom(cfg, 1, [exc |-> "none", fs |-> fs, reported |-> <<>>], t)

----------------------------------------------------------------------------
(* The state store on its own: one configured schedule whose file starts    *)
(* with any content, loaded and saved at will.                              *)

Missing == [t |-> "missing"]

\* a JSON object from a choice of value (or Missing) per key
ObjectOf(choice) == JObj([k \in {x \in DOMAIN choice : choice[x] # Missing} |-> choice[k]])

WordChoices(name) == {Missing, JStr(<<name>>)}
StatusChoices == {Missing, JStr(<<"pending">>), JStr(<<"running">>), JStr(<<"bogus">>)}
TimeChoices == {Missing, JNull, JStr(<<>>), JStr(Numeral(60)), JStr(<<"x">>), JNum(5), JNum(0)}
PidChoices == {Missing, JNull, JNum(1), JStr(<<"x">>)}

FileChoices(name) ==
    {FAbsent, FText, FJson(JNull), FJson(JArr), FJson(JNum(5)), FJson(JStr(<<"x">>))}
    \cup {FJson(ObjectOf([schedule |-> sc, last_run |-> lr, next_run |-> nr, status |-> st,
                          started_at |-> JNull, finished_at |-> JNull, pid |-> pd])) :
            sc \in WordChoices(name), lr \in TimeChoices, nr \in {JNull, JStr(<<"x">>)},
            st \in StatusChoices, pd \in PidChoices}

TimeSamples == {None, DT(SecondsPerHour * DefaultTimeoutHours)}

StateChoices(name) ==
    {ScheduleState(name, lr, nr, st, sa, fa, pd) :
        lr \in {None, DT(7)}, nr \in TimeSamples, st \in Statuses,
        sa \in {None, DT(SecondsPerMinute)}, fa \in {None, DT(0)},
        pd \in {None, IntV(0), IntV(MaxPid)}}

InitStore ==
    /\ now = 0
    /\ \E sd \in {Schedule("a", EveryOtherMinute), Schedule("m", None)} :
         /\ config = Config(<<sd>>, DefaultTimeoutHours)
         /\ \E f \in FileChoices(sd.name) :
              files = [n \in Names |-> IF n = sd.name THEN f ELSE FAbsent]
    /\ procs = [p \in Pids |-> NoProc]
    /\ lockHeld = FALSE
    /\ chk = NoChecks
    /\ jobs = [p \in Pids |-> None]
    /\ last = [op |-> "init"]

\* what an operation returned, without the store it left
Outcome(r) == [x \in DOMAIN r \ {"fs"} |-> r[x]]

\* the operation before, as the log of the next one keeps it
WithoutPrev(l) == [x \in DOMAIN l \ {"prev"} |-> l[x]]

StoreLoaded(name, r) ==
    /\ files' = r.fs
    /\ last' = [op |-> "load", name |-> name, at |-> now, before |-> files[name],
                res |-> Outcome(r), prev |-> WithoutPrev(last)]
    /\ UNCHANGED <<now, config, procs, lockHeld, chk, jobs>>

StoreLoad ==
    \E i \in 1..Len(config.schedules) :
        StoreLoaded(config.schedules[i].name,
                    load_state(files, config.schedules[i].name, config.schedules[i].cron, now))

StoreSave ==
    \E i \in 1..Len(config.schedules) :
      \E state \in StateChoices(config.schedules[i].name) :
          /\ files' = save_state(files, state)
          /\ last' = [op |-> "save", state |-> state]
          /\ UNCHANGED <<now, config, procs, lockHeld, chk, jobs>>

StoreStatusDone(r) ==
    /\ files' = r.fs
    /\ last' = [op |-> "status", at |-> now, exc |-> r.exc, reported |-> r.reported]
    /\ UNCHANGED <<now, config, procs, lockHeld, chk, jobs>>

\* "android-sync status"
StoreStatus == StoreStatusDone(cmd_status(files, config, now))

NextStore == StoreLoad \/ StoreSave \/ StoreStatus \/ Tick

SpecStore == InitStore /\ [][NextStore]_vars

----------------------------------------------------------------------------
(* The recurrence calculator on its own: one cron expression, applied at    *)
(* sample instants and then again at each instant it returns.               *)

CronChoices ==
    {EveryMinute, EveryOtherMinute}
    \cup {Cron(ms, hs) : ms \in (SUBSET {0, 15, 59}) \ {{}}, hs \in (SUBSET {0, 3, 23}) \ {{}}}

InstantSamples ==
    {0, 1, 59, 60, 61, 3 * SecondsPerHour - 1, 3 * SecondsPerHour, 3 * SecondsPerHour + 1,
     24 * SecondsPerHour - 1, 24 * SecondsPerHour}

\* whether instant t is a trigger instant of expr
IsTrigger(expr, t) ==
    /\ t % SecondsPerMinute = 0
    /\ MinuteOfHour(t \div SecondsPerMinute) \in expr.minute
    /\ HourOfDay(t \div SecondsPerMinute) \in expr.hour

InitCron ==
    /\ now \in InstantSamples
    /\ \E expr \in CronChoices : config = Config(<<Schedule("a", expr)>>, DefaultTimeoutHours)
    /\ files = [n \in Names |-> FAbsent]
    /\ procs = [p \in Pids |-> NoProc]
    /\ lockHeld = FALSE
    /\ chk = NoChecks
    /\ jobs = [p \in Pids |-> None]
    /\ last = [op |-> "init"]

CronNext ==
    /\ last' = [op |-> "next", expr |-> config.schedules[1].cron, from |-> now,
                ret |-> calculate_next_run(config.schedules[1].cron, DT(now))]
    /\ UNCHANGED <<now, config, files, procs, lockHeld, chk, jobs>>

\* the clock reaches the instant returned
CronArrive ==
    /\ last.op = "next"
    /\ last.from = now
    /\ now < (MaxTick + 1) * 24 * SecondsPerHour
    /\ now' = last.ret.v
    /\ UNCHANGED <<config, files, procs, lockHeld, chk, jobs, last>>

NextCron == CronNext \/ CronArrive

SpecCron == InitCron /\ [][NextCron]_vars

----------------------------------------------------------------------------
(* The stale job detector on its own: one persisted record, one process     *)
(* table and one instant, drawn around the tolerance and the timeout.       *)

StartSample == 2 * SecondsPerMinute

StaleStates ==
    {ScheduleState("a", None, DT(StartSample), st, sa, None, pd) :
        st \in Statuses, sa \in {None, DT(StartSample)}, pd \in {None, IntV(1)}}

StaleProcs ==
    {NoProc} \cup
    {Proc(StartSample + d, ac) :
        d \in {-StartTolerance - 1, -StartTolerance, 0, StartTolerance, StartTolerance + 1},
        ac \in {"ok", "denied"}}

InitStale ==
    /\ \E th \in {1, DefaultTimeoutHours} :
         /\ config = Config(<<Schedule("a", EveryOtherMinute)>>, th)
         /\ now \in {StartSample + d : d \in {0, th * SecondsPerHour, th * SecondsPerHour + 1}}
    /\ \E state \in StaleStates :
         files = [n \in Names |-> IF n = "a" THEN FJson(StateToJson(state)) ELSE FAbsent]
    /\ \E pr \in StaleProcs : procs = [p \in Pids |-> IF p = 1 THEN pr ELSE NoProc]
    /\ lockHeld = FALSE
    /\ chk = NoChecks
    /\ jobs = [p \in Pids |-> None]
    /\ last = [op |-> "init"]

StaleChecked(state, race, r) ==
    /\ last' = [op |-> "stale", state |-> state, race |-> race, ret |-> r.ret,
                killed |-> r.killed]
    /\ UNCHANGED <<now, config, files, procs, lockHeld, chk, jobs>>

StaleCheckOf(state, race) ==
    StaleChecked(state, race,
                 check_stale_job(state, config.stale_job_timeout_hours, procs, now, race))

StaleCheck ==
    \E race \in Races :
        StaleCheckOf(load_state(files, "a", CronOf(config, "a"), now).state, race)

StalePassed(state, race, pass) ==
    /\ files' = pass.fs
    /\ procs' = Terminate(procs, pass.killed)
    /\ last' = [op |-> "pass", state |-> state, race |-> race, entries |-> pass.entries,
                killed |-> pass.killed]
    /\ UNCHANGED <<now, config, lockHeld, chk, jobs>>

StalePassOf(state, race) ==
    StalePassed(state, race,
                ReconcileOne(files, "a", state, config.stale_job_timeout_hours, procs, now, now,
                             race))

\* get_overdue_schedules on the one schedule, while the process of the
\* record may exit under it
StalePass ==
    \E race \in Races :
        StalePassOf(load_state(files, "a", CronOf(config, "a"), now).state, race)

NextStale == StaleCheck \/ StalePass

SpecStale == InitStale /\ [][NextStale]_vars

----------------------------------------------------------------------------
(* The core's operations called one at a time, in any order, on a store     *)
(* that starts empty: load, on_start, on_finish, scan and reset for the one *)
(* configured schedule ("a", recurring, or "m", manual) and for the unknown *)
(* name "b", while the calling process starts and exits and the clock       *)
(* advances.                                                                *)

ConfigsApi ==
    {Config(<<sd>>, DefaultTimeoutHours) :
        sd \in {Schedule("a", EveryOtherMinute), Schedule("m", None)}}

\* the process that calls the operations
ApiPids == {1}

Configured(cfg) == {cfg.schedules[i].name : i \in 1..Len(cfg.schedules)}

InitApi ==
    /\ now = 0
    /\ config \in ConfigsApi
    /\ files = [n \in Names |-> FAbsent]
    /\ procs = [p \in Pids |-> NoProc]
    /\ lockHeld = FALSE
    /\ chk = NoChecks
    /\ jobs = [p \in Pids |-> None]
    /\ last = [op |-> "init"]

ProcStart ==
    \E p \in ApiPids :
        /\ ~procs[p].alive
        /\ procs' = [procs EXCEPT ![p] = Proc(now, "ok")]
        /\ UNCHANGED <<now, config, files, lockHeld, chk, jobs, last>>

ProcExit ==
    \E p \in ApiPids :
        /\ procs[p].alive
        /\ procs' = [procs EXCEPT ![p] = NoProc]
        /\ UNCHANGED <<now, config, files, lockHeld, chk, jobs, last>>

\* what the next operation's log keeps of the operation before it
Brief(l) ==
    [op |-> l.op,
     at |-> IF "at" \in DOMAIN l THEN l.at ELSE 0,
     success |-> IF "success" \in DOMAIN l THEN l.success ELSE TRUE,
     exc |-> IF "exc" \in DOMAIN l THEN l.exc ELSE "none"]

ApiDone(r, log) ==
    /\ files' = r.fs
    /\ last' = [exc |-> r.exc, at |-> now, before |-> files]
                  @@ [k \in {"rc"} \cap DOMAIN r |-> r.rc] @@ log
    /\ UNCHANGED <<now, config, procs, lockHeld, chk, jobs>>

ApiLoad ==
    \E n \in Configured(config) :
        ApiDone(load_state(files, n, CronOf(config, n), now), [op |-> "load", name |-> n])

ApiOnStart ==
    \E n \in Configured(config) \cup {"b"}, p \in ApiPids :
        /\ procs[p].alive
        /\ ApiDone(update_state_on_start(files, config, n, p, now),
                   [op |-> "on_start", name |-> n, pid |-> p])

ApiOnFinish ==
    \E n \in Configured(config) \cup {"b"}, success \in BOOLEAN :
        ApiDone(update_state_on_finish(files, config, n, success, now),
                [op |-> "on_finish", name |-> n, success |-> success])

ApiScanDone(r) ==
    /\ files' = r.fs
    /\ procs' = Terminate(procs, r.killed)
    /\ last' = [op |-> "scan", at |-> now, before |-> files, exc |-> r.exc,
                overdue |-> r.overdue, prev |-> Brief(last)]
    /\ UNCHANGED <<now, config, lockHeld, chk, jobs>>

ApiScan == ApiScanDone(get_overdue_schedules(config, files, procs, now))

ApiReset ==
    \E n \in Configured(config) \cup {"b"} :
        ApiDone(cmd_reset(files, config, n, now), [op |-> "reset", name |-> n])

NextApi ==
    \/ Tick
    \/ ProcStart
    \/ ProcExit
    \/ ApiLoad
    \/ ApiOnStart
    \/ ApiOnFinish
    \/ ApiScan
    \/ ApiReset

SpecApi == InitApi /\ [][NextApi]_vars

----------------------------------------------------------------------------
(* The overdue selector on its own: one scan of a store whose records are   *)
(* drawn around the instant of the scan, for three schedules of which "m"   *)
(* is manual or recurring.                                                  *)

ScanInstant == SecondsPerHour

ConfigsScan ==
    {Config(<<Schedule("a", EveryMinute), Schedule("m", mc), Schedule("b", EveryOtherMinute)>>,
            DefaultTimeoutHours) : mc \in {None, DailyAtThree}}

NextRunSamples ==
    {None, DT(ScanInstant - 30 * SecondsPerMinute), DT(ScanInstant),
     DT(ScanInstant + SecondsPerMinute)}

\* records as save_state leaves them: a running one with the pid and start
\* time of a job, or with neither
ScanStates(name) ==
    {ScheduleState(name, None, nr, st, None, None, None) :
        nr \in NextRunSamples, st \in Statuses \ {"running"}}
    \cup {ScheduleState(name, None, nr, "running", DT(ScanInstant), None, IntV(1)) :
            nr \in NextRunSamples}
    \cup {ScheduleState(name, None, nr, "running", None, None, None) : nr \in NextRunSamples}

ScanFiles(name) == {FAbsent} \cup {FJson(StateToJson(st)) : st \in ScanStates(name)}

InitScan ==
    /\ now \in {ScanInstant, ScanInstant + SecondsPerMinute}
    /\ config \in ConfigsScan
    /\ \E fa \in ScanFiles("a"), fb \in ScanFiles("b"), fm \in ScanFiles("m") :
         files = [n \in Names |-> IF n = "a" THEN fa ELSE IF n = "b" THEN fb ELSE fm]
    /\ \E pr \in {NoProc, Proc(ScanInstant, "ok")} :
         procs = [p \in Pids |-> IF p = 1 THEN pr ELSE NoProc]
    /\ lockHeld = FALSE
    /\ chk = NoChecks
    /\ jobs = [p \in Pids |-> None]
    /\ last = [op |-> "init"]

ScanDone(r) ==
    /\ files' = r.fs
    /\ procs' = Terminate(procs, r.killed)
    /\ last' = [op |-> "scan", at |-> now, before |-> files, exc |-> r.exc,
                overdue |-> r.overdue]
    /\ UNCHANGED <<now, config, lockHeld, chk, jobs>>

\* get_overdue_schedules called once on the store
Scan ==
    /\ last.op = "init"
    /\ ScanDone(get_overdue_schedules(config, files, procs, now))

NextScan == Scan

SpecScan == InitScan /\ [][NextScan]_vars

----------------------------------------------------------------------------
(* A save and a load of the same record by two processes.  save_state opens *)
(* the file with mode "w", which empties it, and the text json.dump         *)
(* produces reaches the file afterwards; a load_state of another process    *)
(* may run before the save, between the two steps, or after it.             *)

InitSave ==
    /\ now = ScanInstant
    /\ config = Config(<<Schedule("a", EveryMinute)>>, DefaultTimeoutHours)
    /\ \E fa \in ScanFiles("a") :
         files = [n \in Names |-> IF n = "a" THEN fa ELSE FAbsent]
    /\ procs = [p \in Pids |-> NoProc]
    /\ lockHeld = FALSE
    /\ chk = NoChecks
    /\ jobs = [p \in Pids |-> None]
    /\ last = [op |-> "init"]

\* open(state_path, "w"): the file exists and is empty
SaveOpen ==
    \E state \in ScanStates("a") :
        /\ jobs[1] = None
        /\ jobs' = [jobs EXCEPT ![1] = [t |-> "save", state |-> state, old |-> files["a"]]]
        /\ files' = [files EXCEPT !["a"] = FText]
        /\ last' = [op |-> "open"]
        /\ UNCHANGED <<now, config, procs, lockHeld, chk>>

\* json.dump and the close of the file: the whole record is in the file
SaveClose ==
    /\ jobs[1] # None
    /\ files' = save_state(files, jobs[1].state)
    /\ jobs' = [jobs EXCEPT ![1] = None]
    /\ last' = [op |-> "save"]
    /\ UNCHANGED <<now, config, procs, lockHeld, chk>>

SaveLoaded(r) ==
    /\ files' = r.fs
    /\ last' = [op |-> "load", res |-> Outcome(r), during |-> jobs[1]]
    /\ UNCHANGED <<now, config, procs, lockHeld, chk, jobs>>

\* load_state of the other process
SaveLoad == SaveLoaded(load_state(files, "a", CronOf(config, "a"), now))

NextSave == SaveOpen \/ SaveClose \/ SaveLoad

SpecSave == InitSave /\ [][NextSave]_vars

----------------------------------------------------------------------------
(* The run command on its own: cmd_run of the configured schedule, with or  *)
(* without --dry-run, one invocation at a time.  The sync of a profile      *)
(* returns a result that succeeded or failed, or raises.                    *)

\* a cmd_run invocation: its arguments, how far it has come, the results of
\* the profiles synced so far and the store it found
RunJob(schedule, dry_run, profiles, before) ==
    [t |-> "job", schedule |-> schedule, dry_run |-> dry_run, profiles |-> profiles,
     phase |-> "credentials", results |-> <<>>, before |-> before]

\* success as the finally clause finds it: False from before the try block
\* unless the loop ended and all(r.success for r in results)
RunSuccess_any(job) ==
    job.phase = "sync" /\ \E i \in 1..Len(job.results) : job.results[i]

RunSuccess(job) ==
    job.phase = "sync" /\ \A i \in 1..Len(job.results) : job.results[i]

\* the records a run may find: none, or that of an earlier success
RunFiles(cfg, n) ==
    {FAbsent,
     FJson(StateToJson(ScheduleState(n, DT(0), InitialState(n, CronOf(cfg, n), 0).next_run,
                                     "success", None, DT(0), None)))}

InitRun ==
    /\ now = 0
    /\ config \in ConfigsApi
    /\ \E f \in RunFiles(config, config.schedules[1].name) :
         files = [n \in Names |-> IF n = config.schedules[1].name THEN f ELSE FAbsent]
    /\ procs = [p \in Pids |-> NoProc]
    /\ lockHeld = FALSE
    /\ chk = NoChecks
    /\ jobs = [p \in Pids |-> None]
    /\ last = [op |-> "init"]

\* "android-sync run <schedule>" is started
CmdRunEnter ==
    \E p \in ApiPids, dry_run \in BOOLEAN, k \in 1..MaxProfiles :
        /\ jobs[p] = None
        /\ procs' = [procs EXCEPT ![p] = Proc(now, "ok")]
        /\ jobs' = [jobs EXCEPT ![p] = RunJob(config.schedules[1].name, dry_run, k, files)]
        /\ last' = [op |-> "enter", at |-> now]
        /\ UNCHANGED <<now, config, files, lockHeld, chk>>

\* the process of the run command ends
CmdRunEnded(p, log) ==
    /\ procs' = [procs EXCEPT ![p] = NoProc]
    /\ jobs' = [jobs EXCEPT ![p] = None]
    /\ last' = [op |-> "run", name |-> jobs[p].schedule, dry_run |-> jobs[p].dry_run,
                results |-> jobs[p].results,
                profiles |-> jobs[p].profiles] @@ log

\* get_b2_credentials raises KeystoreError: return 1
CmdRunNoCredentials ==
    \E p \in ApiPids :
        /\ jobs[p] # None
        /\ jobs[p].phase = "credentials"
        /\ CmdRunEnded(p, [started |-> FALSE, finishes |-> 0, success |-> FALSE,
                           killed |-> FALSE, rc |-> 1,
                           unchanged |-> (files = jobs[p].before)])
        /\ UNCHANGED <<now, config, files, lockHeld, chk>>

CmdRunStarted(p, r) ==
    /\ files' = r.fs
    /\ jobs' = [jobs EXCEPT ![p].phase = "sync"]
    /\ UNCHANGED <<now, config, procs, lockHeld, chk, last>>

\* if schedule_name: update_state_on_start(schedule_name, config)
CmdRunOnStart ==
    \E p \in ApiPids :
        /\ jobs[p] # None
        /\ jobs[p].phase = "credentials"
        /\ CmdRunStarted(p, update_state_on_start(files, config, jobs[p].schedule, p, now))

\* sync_profile of the next profile returns a result or raises
CmdRunSync ==
    \E p \in ApiPids :
        /\ jobs[p] # None
        /\ jobs[p].phase = "sync"
        /\ Len(jobs[p].results) < jobs[p].profiles
        /\ \/ \E ok \in BOOLEAN : jobs' = [jobs EXCEPT ![p].results = Append(@, ok)]
           \/ jobs' = [jobs EXCEPT ![p].phase = "raised"]
        /\ UNCHANGED <<now, config, files, procs, lockHeld, chk, last>>

CmdRunFinished(p, success, r) ==
    /\ files' = r.fs
    /\ CmdRunEnded(p, [started |-> TRUE, finishes |-> 1, success |-> success,
                       killed |-> FALSE, unchanged |-> (r.fs = jobs[p].before),
                       rc |-> IF jobs[p].phase = "raised" THEN 2
                              ELSE IF success THEN 0 ELSE 1])
    /\ UNCHANGED <<now, config, lockHeld, chk>>

\* the try block is left, by return or by an exception: the finally clause
\* calls update_state_on_finish and the command ends
CmdRunFinally ==
    \E p \in ApiPids :
        /\ jobs[p] # None
        /\ \/ jobs[p].phase = "raised"
           \/ jobs[p].phase = "sync" /\ Len(jobs[p].results) = jobs[p].profiles
        /\ CmdRunFinished(p, RunSuccess(jobs[p]),
                          update_state_on_finish(files, config, jobs[p].schedule,
                                                 RunSuccess(jobs[p]), now))

\* the process is killed from outside
CmdRunKilled ==
    \E p \in ApiPids :
        /\ jobs[p] # None
        /\ CmdRunEnded(p, [started |-> jobs[p].phase # "credentials", finishes |-> 0,
                           success |-> FALSE, killed |-> TRUE, rc |-> 2,
                           unchanged |-> (files = jobs[p].before)])
        /\ UNCHANGED <<now, config, files, lockHeld, chk>>

NextRun ==
    \/ Tick
    \/ CmdRunEnter
    \/ CmdRunNoCredentials
    \/ CmdRunOnStart
    \/ CmdRunSync
    \/ CmdRunFinally
    \/ CmdRunKilled

SpecRun == InitRun /\ [][NextRun]_vars

----------------------------------------------------------------------------
(* The host: check invocations (cmd_check) that overlap, the background     *)
(* jobs they spawn (cmd_run of a schedule), another process that takes and  *)
(* releases an exclusive flock on check.lock, and the clock.  A check is a  *)
(* process of its own; its steps interleave with those of the other check   *)
(* and of the jobs between any two accesses of the state directory.         *)

HostConfig ==
    Config(<<Schedule("m", None), Schedule("a", EveryMinute)>>, DefaultTimeoutHours)

\* a background job: the schedule it runs and how far cmd_run has come
Job(schedule, phase) == [t |-> "job", schedule |-> schedule, phase |-> phase]

\* the jobs left after SIGTERM reached those in `killed`
Reap(js, killed) ==
    [p \in DOMAIN js |-> IF \E i \in 1..Len(killed) : killed[i] = p THEN None ELSE js[p]]

\* a check invocation that is not running: n counts those its slot has run
Returned(n) == [pc |-> "idle", n |-> n]

\* the check invocations started so far
RECURSIVE Invocations(_)
Invocations(S) ==
    IF S = {} THEN 0 ELSE LET c == CHOOSE x \in S : TRUE IN chk[c].n + Invocations(S \ {c})

Init ==
    /\ now = 0
    /\ config = HostConfig
    /\ files = [n \in Names |-> FAbsent]
    /\ procs = [p \in Pids |-> NoProc]
    /\ lockHeld = FALSE
    /\ chk = [c \in Checkers |-> Returned(0)]
    /\ jobs = [p \in Pids |-> None]
    /\ last = [op |-> "init"]

\* another process takes the exclusive lock on check.lock
LockAcquire ==
    /\ ~lockHeld
    /\ lockHeld' = TRUE
    /\ UNCHANGED <<now, config, files, procs, chk, jobs, last>>

LockRelease ==
    /\ lockHeld
    /\ lockHeld' = FALSE
    /\ UNCHANGED <<now, config, files, procs, chk, jobs, last>>

\* cmd_check is entered: get_overdue_schedules sets overdue = [] and reads
\* now.  `locked` and `wrote` observe the invocation: whether the lock was
\* held by another process when it started, and whether it called save_state.
CheckStart(c) ==
    /\ chk[c].pc = "idle"
    /\ Invocations(Checkers) < MaxChecks
    /\ chk' = [chk EXCEPT ![c] = [pc |-> "scan", n |-> chk[c].n + 1, t |-> now, i |-> 1,
                                  overdue |-> <<>>, locked |-> lockHeld, wrote |-> FALSE]]
    /\ UNCHANGED <<now, config, files, procs, lockHeld, jobs, last>>

\* the loop passes a manual schedule by
ScanSkip(c) ==
    /\ chk[c].pc = "scan"
    /\ chk[c].i <= Len(config.schedules)
    /\ config.schedules[chk[c].i].cron = None
    /\ chk' = [chk EXCEPT ![c].i = @ + 1]
    /\ UNCHANGED <<now, config, files, procs, lockHeld, jobs, last>>

ScanLoadDone(c, ld) ==
    /\ files' = ld.fs
    /\ IF ld.exc # "none"
       THEN /\ chk' = [chk EXCEPT ![c] = Returned(chk[c].n)]
            /\ last' = [op |-> "check", exc |-> ld.exc, locked |-> chk[c].locked,
                        wrote |-> chk[c].wrote, found |-> 0, spawned |-> 0]
       ELSE /\ chk' = [chk EXCEPT ![c] = [pc |-> "loaded", n |-> chk[c].n, t |-> chk[c].t,
                                          i |-> chk[c].i, overdue |-> chk[c].overdue,
                                          locked |-> chk[c].locked,
                                          wrote |-> chk[c].wrote \/ ld.saved,
                                          state |-> ld.state]]
            /\ last' = last
    /\ UNCHANGED <<now, config, procs, lockHeld, jobs>>

\* the loop loads the state of a recurring schedule
ScanLoad(c) ==
    /\ chk[c].pc = "scan"
    /\ chk[c].i <= Len(config.schedules)
    /\ config.schedules[chk[c].i].cron # None
    /\ ScanLoadDone(c, load_state(files, config.schedules[chk[c].i].name,
                                  config.schedules[chk[c].i].cron, now))

ScanReconcileDone(c, pass) ==
    /\ files' = pass.fs
    /\ procs' = Terminate(procs, pass.killed)
    /\ jobs' = Reap(jobs, pass.killed)
    /\ chk' = [chk EXCEPT ![c] = [pc |-> "scan", n |-> chk[c].n, t |-> chk[c].t,
                                  i |-> chk[c].i + 1,
                                  overdue |-> chk[c].overdue \o pass.entries,
                                  locked |-> chk[c].locked,
                                  wrote |-> chk[c].wrote \/ pass.saved]]
    /\ UNCHANGED <<now, config, lockHeld, last>>

\* the rest of the pass for the state loaded: stale check, retry reset and
\* overdue test
ScanReconcile(c) ==
    /\ chk[c].pc = "loaded"
    /\ ScanReconcileDone(c, ReconcileOne(files, config.schedules[chk[c].i].name, chk[c].state,
                                         config.stale_job_timeout_hours, procs, chk[c].t, now,
                                         "none"))

CheckReturned(c, overdue, spawned) ==
    /\ chk' = [chk EXCEPT ![c] = Returned(chk[c].n)]
    /\ last' = [op |-> "check", exc |-> "none", locked |-> chk[c].locked,
                wrote |-> chk[c].wrote, found |-> Len(overdue), spawned |-> spawned]

\* subprocess.Popen of "android-sync run <schedule>", detached
Spawned(p, schedule_name) ==
    /\ ~procs[p].alive
    /\ procs' = [procs EXCEPT ![p] = Proc(now, "ok")]
    /\ jobs' = [jobs EXCEPT ![p] = Job(schedule_name, "spawned")]

CheckFinishDone(c, overdue) ==
    /\ IF overdue = <<>>
       THEN /\ CheckReturned(c, overdue, 0)
            /\ UNCHANGED <<procs, jobs>>
       ELSE /\ CheckReturned(c, overdue, 1)
            /\ \E p \in Pids : Spawned(p, overdue[1].name)
    /\ UNCHANGED <<now, config, files, lockHeld>>

\* the loop has ended: the list is sorted and cmd_check spawns its first
\* entry, if any, and returns 0
CheckFinish(c) ==
    /\ chk[c].pc = "scan"
    /\ chk[c].i > Len(config.schedules)
    /\ CheckFinishDone(c, SortOverdue(chk[c].overdue))

\* cmd_run of the spawned job fails to get the credentials and returns 1
RunNoCredentials(p) ==
    /\ jobs[p] # None
    /\ jobs[p].phase = "spawned"
    /\ procs' = [procs EXCEPT ![p] = NoProc]
    /\ jobs' = [jobs EXCEPT ![p] = None]
    /\ UNCHANGED <<now, config, files, lockHeld, chk, last>>

RunBeginDone(p, r) ==
    /\ files' = r.fs
    /\ jobs' = [jobs EXCEPT ![p].phase = "running"]
    /\ UNCHANGED <<now, config, procs, lockHeld, chk, last>>

\* cmd_run reaches update_state_on_start
RunBegin(p) ==
    /\ jobs[p] # None
    /\ jobs[p].phase = "spawned"
    /\ RunBeginDone(p, update_state_on_start(files, config, jobs[p].schedule, p, now))

RunEndDone(p, r) ==
    /\ files' = r.fs
    /\ procs' = [procs EXCEPT ![p] = NoProc]
    /\ jobs' = [jobs EXCEPT ![p] = None]
    /\ UNCHANGED <<now, config, lockHeld, chk, last>>

\* the sync ends, the finally clause calls update_state_on_finish and the
\* process exits
RunEnd(p) ==
    /\ jobs[p] # None
    /\ jobs[p].phase = "running"
    /\ \E success \in BOOLEAN :
           RunEndDone(p, update_state_on_finish(files, config, jobs[p].schedule, success, now))

\* the job is killed from outside (SIGKILL) and leaves its record as it is
RunKilled(p) ==
    /\ jobs[p] # None
    /\ procs' = [procs EXCEPT ![p] = NoProc]
    /\ jobs' = [jobs EXCEPT ![p] = None]
    /\ UNCHANGED <<now, config, files, lockHeld, chk, last>>

Next ==
    \/ Tick
    \/ LockAcquire
    \/ LockRelease
    \/ \E c \in Checkers : CheckStart(c)
    \/ \E c \in Checkers : ScanSkip(c)
    \/ \E c \in Checkers : ScanLoad(c)
    \/ \E c \in Checkers : ScanReconcile(c)
    \/ \E c \in Checkers : CheckFinish(c)
    \/ \E p \in Pids : RunNoCredentials(p)
    \/ \E p \in Pids : RunBegin(p)
    \/ \E p \in Pids : RunEnd(p)
    \/ \E p \in Pids : RunKilled(p)

Spec == Init /\ [][Next]_vars

----------------------------------------------------------------------------
(* The check command on its own: one cmd_check on the stores of the overdue *)
(* selector, from its entry to its return.                                  *)

\* cmd_check that picks the last entry of the list
CheckSelect_last(r) ==
    IF r.exc # "none" THEN [exc |-> r.exc, spawn |-> <<>>]
    ELSE IF r.overdue = <<>> THEN [exc |-> "none", rc |-> 0, spawn |-> <<>>]
    ELSE [exc |-> "none", rc |-> 0, spawn |-> <<r.overdue[Len(r.overdue)].name>>]

\* cmd_check after get_overdue_schedules returned (or raised) r: the exit
\* code and the schedule handed to spawn_background_job, if any
CheckSelect(r) ==
    IF r.exc # "none" THEN [exc |-> r.exc, spawn |-> <<>>]
    ELSE IF r.overdue = <<>> THEN [exc |-> "none", rc |-> 0, spawn |-> <<>>]
    ELSE [exc |-> "none", rc |-> 0, spawn |-> <<r.overdue[1].name>>]

CmdCheckDone(r, sel) ==
    /\ files' = r.fs
    /\ IF sel.spawn = <<>>
       THEN /\ procs' = Terminate(procs, r.killed)
            /\ jobs' = jobs
       ELSE \E p \in Pids :
                /\ ~Terminate(procs, r.killed)[p].alive
                /\ procs' = [Terminate(procs, r.killed) EXCEPT ![p] = Proc(now, "ok")]
                /\ jobs' = [jobs EXCEPT ![p] = Job(sel.spawn[1], "spawned")]
    /\ last' = [op |-> "check", at |-> now, exc |-> sel.exc, overdue |-> r.overdue]
                  @@ [k \in {"rc"} \cap DOMAIN sel |-> sel.rc]
    /\ UNCHANGED <<now, config, lockHeld, chk>>

CmdCheckScanned(r) == CmdCheckDone(r, CheckSelect(r))

\* cmd_check called once on the store
CmdCheck ==
    /\ last.op = "init"
    /\ CmdCheckScanned(get_overdue_schedules(config, files, procs, now))

NextCheck == CmdCheck

SpecCheck == InitScan /\ [][NextCheck]_vars

----------------------------------------------------------------------------
(* Checks invoked again and again, one at a time, at an instant at which    *)
(* two recurring schedules are overdue, "a" by more than "b"; a manual one  *)
(* is configured too.  Each job a check spawns reaches                      *)
(* update_state_on_start before the next check and later ends with a        *)
(* success or a failure, between two checks.  A check that is due is run to *)
(* its end, and a job that can take its next step takes it.                 *)

FairConfig ==
    Config(<<Schedule("m", None), Schedule("a", EveryMinute), Schedule("b", EveryMinute)>>,
           DefaultTimeoutHours)

\* the pending record of a schedule that was due at instant t
DueSince(name, t) == FJson(StateToJson(ScheduleState(name, None, DT(t), "pending", None, None, None)))

InitFair ==
    /\ now = ScanInstant
    /\ config = FairConfig
    /\ files = [n \in Names |-> IF n = "a" THEN DueSince("a", ScanInstant - 30 * SecondsPerMinute)
                                ELSE IF n = "b" THEN DueSince("b", ScanInstant)
                                ELSE FAbsent]
    /\ procs = [p \in Pids |-> NoProc]
    /\ lockHeld = FALSE
    /\ chk = [c \in Checkers |-> Returned(0)]
    /\ jobs = [p \in Pids |-> None]
    /\ last = [op |-> "init"]

\* the job of process p has not called update_state_on_start, or has
AtBegin(p) == jobs[p] # None /\ jobs[p].phase = "spawned"
AtEnd(p) == jobs[p] # None /\ jobs[p].phase = "running"

\* the next cmd_check is entered, once the one before has returned and the job
\* it spawned has started
FairStart ==
    /\ chk["c1"].pc = "idle"
    /\ \A p \in Pids : ~AtBegin(p)
    /\ chk'= [chk EXCEPT !["c1"] = [pc |-> "scan", n |-> 0, t |-> now, i |-> 1,
                                     overdue |-> <<>>, locked |-> lockHeld, wrote |-> FALSE]]
    /\ UNCHANGED <<now, config, files, procs, lockHeld, jobs, last>>

\* a check lasts an instant and a sync lasts long: the steps of the jobs fall
\* between two checks
FairBegin(p) == chk["c1"].pc = "idle" /\ RunBegin(p)
FairEnd(p) == chk["c1"].pc = "idle" /\ RunEnd(p)

NextFair ==
    \/ FairStart
    \/ ScanSkip("c1")
    \/ ScanLoad("c1")
    \/ ScanReconcile("c1")
    \/ CheckFinish("c1")
    \/ \E p \in Pids : FairBegin(p)
    \/ \E p \in Pids : FairEnd(p)

\* the check is about to call load_state, or has called it
AtLoad == chk["c1"].pc = "scan" /\ chk["c1"].i <= Len(config.schedules)
             /\ config.schedules[chk["c1"].i].cron # None
AtReconcile == chk["c1"].pc = "loaded"

\* Weak fairness of every step of the check: ScanLoad and ScanReconcile are
\* enabled exactly when AtLoad and AtReconcile hold and each ends its own
\* guard, so weak fairness of the step is that its guard does not hold for
\* ever.  Every spawned job calls update_state_on_start and every started job
\* reaches update_state_on_finish: AtBegin and AtEnd do not hold for ever.
SpecFair ==
    /\ InitFair
    /\ [][NextFair]_vars
    /\ WF_vars(FairStart)
    /\ WF_vars(ScanSkip("c1"))
    /\ WF_vars(CheckFinish("c1"))
    /\ []<>(~AtLoad)
    /\ []<>(~AtReconcile)
    /\ \A p \in Pids : []<>(~AtBegin(p)) /\ []<>(~AtEnd(p))

----------------------------------------------------------------------------
(* Claims about the state store.                                            *)

RequiredKeys == {"schedule", "status"}

\* a persisted value that no save_state writes for a datetime field
BadTime(j) == ~(j.t = "null" \/ (j.t = "jstr" /\ IsIsoText(j.s)))

\* a persisted value that no save_state writes for pid
BadPid(j) == j.t \notin {"null", "num"}

Malformed(f) ==
    \/ f.k = "text"
    \/ /\ f.k = "json"
       /\ \/ f.v.t # "obj"
          \/ \E k \in RequiredKeys : k \notin DOMAIN f.v.m
          \/ \E i \in 1..Len(TimeKeys) :
                TimeKeys[i] \in DOMAIN f.v.m /\ BadTime(f.v.m[TimeKeys[i]])
          \/ "pid" \in DOMAIN f.v.m /\ BadPid(f.v.m["pid"])

InvalidStatus(f) ==
    /\ f.k = "json"
    /\ f.v.t = "obj"
    /\ "status" \in DOMAIN f.v.m
    /\ f.v.m["status"] \notin {JStr(<<st>>) : st \in Statuses}

FreshAt(l) == InitialState(l.name, CronOf(config, l.name), l.at)

Recovered(l) ==
    /\ l.res.exc = "none"
    /\ l.res.state = FreshAt(l)
    /\ files[l.name] = FJson(StateToJson(FreshAt(l)))

\* C5: a load of an unreadable or malformed record (not parseable, a required
\* field missing, a field of the wrong shape) does not raise, returns the
\* fresh pending record and leaves it persisted in place of the bad one.
C5_MalformedLoadRecovers ==
    (last.op = "load" /\ Malformed(last.before)) => Recovered(last)

\* C6: load never returns a status outside the four statuses; a record with
\* an invalid status is replaced by the fresh pending record.
C6_LoadedStatusValid ==
    last.op = "load" =>
        /\ last.res.exc = "none" => last.res.state.status \in Statuses
        /\ InvalidStatus(last.before) => Recovered(last)

\* C7: a load with no persisted record creates and persists one pending
\* record with null last_run, started_at, finished_at and pid and with
\* next_run non-null iff the schedule is recurring; the next load returns the
\* same record in every field and does not write.
C7_LazyCreationIdempotent ==
    /\ (last.op = "load" /\ last.before = FAbsent) =>
          /\ last.res.exc = "none"
          /\ last.res.saved
          /\ last.res.state =
                ScheduleState(last.name, None, last.res.state.next_run, "pending",
                              None, None, None)
          /\ (last.res.state.next_run # None) <=> (CronOf(config, last.name) # None)
          /\ files = [n \in Names |-> IF n = last.name
                                      THEN FJson(StateToJson(last.res.state)) ELSE FAbsent]
    /\ (/\ last.op = "load"
        /\ last.prev.op = "load"
        /\ last.prev.name = last.name
        /\ last.prev.before = FAbsent) =>
          /\ last.res.exc = "none"
          /\ last.res.state = last.prev.res.state
          /\ ~last.res.saved
          /\ files[last.name] = last.before

\* a second load right after a lazy creation, at a later instant
C7_Witness ==
    /\ last.op = "load"
    /\ last.prev.op = "load"
    /\ last.prev.before = FAbsent
    /\ last.at > last.prev.at
    /\ last.res.state.next_run # None

\* C8: save then load of the same schedule returns the saved record in every
\* field, whatever its status and whichever fields are null.
C8_SaveLoadRoundTrip ==
    (/\ last.op = "load"
     /\ last.prev.op = "save"
     /\ last.prev.state.schedule = last.name) =>
        /\ last.res.exc = "none"
        /\ last.res.state = last.prev.state
        /\ ~last.res.saved

\* a loaded record with null and non-null fields, among them pid 0
C8_Witness ==
    /\ last.op = "load"
    /\ last.prev.op = "save"
    /\ last.res.state.pid = IntV(0)
    /\ last.res.state.last_run = None
    /\ last.res.state.next_run = DT(SecondsPerHour * DefaultTimeoutHours)
    /\ last.res.state.started_at # None
    /\ last.res.state.status = "failed"

----------------------------------------------------------------------------
(* Claims about the recurrence calculator.                                  *)

\* C9: the instant calculate_next_run returns is strictly after the instant
\* it is given, also when that instant is a trigger of the expression.
C9_NextRunStrictlyLater ==
    last.op = "next" => last.ret.v > last.from

\* the calculator applied at a trigger instant of its expression
C9_Witness ==
    /\ last.op = "next"
    /\ IsTrigger(last.expr, last.from)
    /\ last.from > 0

----------------------------------------------------------------------------
(* Claims about the stale job detector.                                     *)

\* the record names a live process whose start time is within the tolerance
\* of started_at, and the record is not older than the timeout
VerifiedAndInTime(state) ==
    /\ state.pid # None
    /\ state.started_at # None
    /\ pid_exists(procs, state.pid.n)
    /\ Abs(procs[state.pid.n].create_time - state.started_at.v) <= StartTolerance
    /\ now - state.started_at.v <= config.stale_job_timeout_hours * SecondsPerHour

\* the process could be inspected: it stayed until its start time was read
\* and psutil was allowed to read it
Inspectable(state, race) ==
    procs[state.pid.n].access = "ok" /\ race # "gone_before_inspect"

\* C10 as stated: the detector returns false for every record that is not
\* running, and for a running record it returns false exactly when pid and
\* started_at are set, the process exists, its start time is within 60
\* seconds of started_at and the timeout has not elapsed.
C10_StaleDecisionAsStated ==
    last.op = "stale" =>
        /\ last.state.status # "running" => ~last.ret
        /\ last.state.status = "running" => (~last.ret <=> VerifiedAndInTime(last.state))

\* C10 as amended: for a running record the detector returns false exactly
\* when, in addition, the process could be inspected.
C10_StaleDecision ==
    last.op = "stale" =>
        /\ last.state.status # "running" => ~last.ret
        /\ last.state.status = "running" =>
              (~last.ret <=> (VerifiedAndInTime(last.state)
                              /\ Inspectable(last.state, last.race)))

\* a running record found not stale with the start times exactly 60 seconds
\* apart and the timeout exactly reached
C10_Witness ==
    /\ last.op = "stale"
    /\ last.state.status = "running"
    /\ ~last.ret
    /\ Abs(procs[1].create_time - last.state.started_at.v) = StartTolerance
    /\ now - last.state.started_at.v = config.stale_job_timeout_hours * SecondsPerHour

----------------------------------------------------------------------------
(* Claims about the persisted records.                                      *)

\* the record persisted for schedule n
Persisted(n) == ParseState(files[n].v).val

\* C4: in every persisted record, status is running if and only if pid and
\* started_at are both non-null.
C4_RunningIffPidAndStart ==
    \A n \in Names :
        files[n].k = "json" =>
            ((Persisted(n).status = "running")
                <=> (Persisted(n).pid # None /\ Persisted(n).started_at # None))

\* a scan has left the record of a live job running, with its pid
C4_Witness ==
    /\ last.op = "scan"
    /\ last.overdue = <<>>
    /\ files["a"].k = "json"
    /\ Persisted("a").status = "running"
    /\ Persisted("a").pid # None
    /\ Passed(Persisted("a"), now)

----------------------------------------------------------------------------
(* Claims about the check command and the jobs it spawns.                   *)

\* C1: a check that started while another process held the lock has
\* returned 0 without spawning a job and without saving any record; a check
\* that started with the lock free and found a schedule overdue has spawned
\* exactly one job.
C1_LockedCheckHasNoEffect ==
    last.op = "check" =>
        /\ last.locked => (last.exc = "none" /\ last.spawned = 0 /\ ~last.wrote)
        /\ (~last.locked /\ last.found > 0) => last.spawned = 1

\* C2: at most one check invocation is between its entry and its return,
\* that is scanning, saving records or about to spawn.
C2_OneCheckAtATime ==
    Cardinality({c \in Checkers : chk[c].pc # "idle"}) <= 1

\* C3: no two live jobs were spawned for the same schedule.
C3_NoDoubleExecution ==
    \A p, q \in Pids :
        (p # q /\ jobs[p] # None /\ jobs[q] # None) => jobs[p].schedule # jobs[q].schedule

----------------------------------------------------------------------------
(* Claims about the signal the stale job detector sends.                    *)

\* the record names a live, inspectable process whose start time is within
\* the tolerance of started_at
Verified(state, race) ==
    /\ state.pid # None
    /\ state.started_at # None
    /\ pid_exists(procs, state.pid.n)
    /\ Inspectable(state, race)
    /\ Abs(procs[state.pid.n].create_time - state.started_at.v) <= StartTolerance

\* C11: the detector signals at most one pid per detection, and only the pid
\* of a running record whose process exists, can be inspected, started
\* within 60 seconds of started_at and has run longer than the timeout.
C11_SignalOnlyVerifiedHung ==
    last.op = "stale" =>
        /\ Len(last.killed) <= 1
        /\ last.killed # <<>> =>
              /\ last.ret
              /\ last.state.status = "running"
              /\ Verified(last.state, last.race)
              /\ last.killed = <<last.state.pid.n>>
              /\ now - last.state.started_at.v
                    > config.stale_job_timeout_hours * SecondsPerHour

\* a signal sent to a process that started exactly 60 seconds off the record
C11_Witness ==
    /\ last.op = "stale"
    /\ last.killed = <<1>>
    /\ Abs(procs[1].create_time - last.state.started_at.v) = StartTolerance
    /\ now - last.state.started_at.v = config.stale_job_timeout_hours * SecondsPerHour + 1

----------------------------------------------------------------------------
(* Claims about the overdue selector.                                       *)

\* the names in an overdue list
OverdueNames(overdue) == {overdue[i].name : i \in 1..Len(overdue)}

\* the record a store holds for schedule n
RecordIn(fs, n) == ParseState(fs[n].v).val

\* C12: a schedule without a cron expression is never in the list a scan
\* returns, whatever its record says, and the scan leaves its file as it
\* was (an absent one stays absent).
C12_ManualNeverSelected ==
    last.op = "scan" =>
        \A i \in 1..Len(config.schedules) :
            config.schedules[i].cron = None =>
                /\ config.schedules[i].name \notin OverdueNames(last.overdue)
                /\ files[config.schedules[i].name] = last.before[config.schedules[i].name]

\* a scan passed by a manual schedule whose record is running with a dead
\* pid and a next_run in the past
C12_Witness ==
    /\ last.op = "scan"
    /\ CronOf(config, "m") = None
    /\ last.before["m"].k = "json"
    /\ RecordIn(last.before, "m").status = "running"
    /\ RecordIn(last.before, "m").pid = IntV(1)
    /\ ~procs[1].alive
    /\ Passed(RecordIn(last.before, "m"), last.at)
    /\ last.overdue # <<>>

\* the record schedule n had before the scan was running and its job alive:
\* the process exists, can be inspected, started within the tolerance of
\* started_at and has not run longer than the timeout
RunningNotStale(n) ==
    /\ last.before[n].k = "json"
    /\ RecordIn(last.before, n).status = "running"
    /\ VerifiedAndInTime(RecordIn(last.before, n))
    /\ procs[RecordIn(last.before, n).pid.n].access = "ok"

\* C13: a recurring schedule whose record is running and not stale is not in
\* the list a scan returns, also when its next_run has passed, and the scan
\* leaves its file as it was.
C13_RunningNeverSelected ==
    last.op = "scan" =>
        \A i \in 1..Len(config.schedules) :
            (config.schedules[i].cron # None /\ RunningNotStale(config.schedules[i].name)) =>
                /\ config.schedules[i].name \notin OverdueNames(last.overdue)
                /\ files[config.schedules[i].name] = last.before[config.schedules[i].name]

\* a scan that selected "b" and passed by "a", running with a live job and a
\* next_run in the past
C13_Witness ==
    /\ last.op = "scan"
    /\ RunningNotStale("a")
    /\ Passed(RecordIn(last.before, "a"), last.at)
    /\ RecordIn(last.before, "a").next_run.v < last.at
    /\ "b" \in OverdueNames(last.overdue)

----------------------------------------------------------------------------
(* Claims about the retry of a failed schedule.                             *)

\* the recurring schedules of the configuration
Recurring(cfg) == {n \in Configured(cfg) : CronOf(cfg, n) # None}

\* C14: a scan that finds the record of a recurring schedule failed leaves
\* it failed and does not select the schedule while now < next_run; once
\* now >= next_run the scan saves the record as pending, nothing else
\* changed, and selects the schedule in the same call.
C14_FailedRetriedAtNextRun ==
    last.op = "scan" =>
        \A n \in Recurring(config) :
            (last.before[n].k = "json" /\ RecordIn(last.before, n).status = "failed") =>
                IF Passed(RecordIn(last.before, n), last.at)
                THEN /\ n \in OverdueNames(last.overdue)
                     /\ RecordIn(files, n) = Pending(RecordIn(last.before, n))
                ELSE /\ n \notin OverdueNames(last.overdue)
                     /\ files[n] = last.before[n]

\* the scan that follows on_finish(success=false), called before next_run,
\* once next_run has passed
C14_Witness ==
    /\ last.op = "scan"
    /\ last.prev.op = "on_finish"
    /\ ~last.prev.success
    /\ last.prev.exc = "none"
    /\ "a" \in OverdueNames(last.overdue)
    /\ last.prev.at < RecordIn(last.before, "a").next_run.v
    /\ RecordIn(last.before, "a").status = "failed"
    /\ RecordIn(files, "a").status = "pending"

\* C15: the scan that follows on_finish(success=false) of a recurring
\* schedule selects the schedule only if a trigger instant of its cron
\* expression later than the failure has passed.
C15_NoImmediateRetry ==
    (/\ last.op = "scan"
     /\ last.prev.op = "on_finish"
     /\ ~last.prev.success
     /\ last.prev.exc = "none") =>
        \A n \in Recurring(config) :
            n \in OverdueNames(last.overdue) =>
                NextTrigger(CronOf(config, n), last.prev.at) <= last.at

----------------------------------------------------------------------------
(* Claims about the list a scan returns.                                    *)

\* C16: the list a scan returns is in non-increasing order of overdue time,
\* and entries overdue by the same time are in the order of the schedule
\* definitions.
C16_MostOverdueFirst ==
    last.op = "scan" =>
        \A i, j \in 1..Len(last.overdue) :
            i < j =>
                /\ last.overdue[i].overdue >= last.overdue[j].overdue
                /\ last.overdue[i].overdue = last.overdue[j].overdue =>
                      ScheduleIndex(config, last.overdue[i].name)
                          < ScheduleIndex(config, last.overdue[j].name)

\* three schedules overdue, the last defined the most overdue and the other
\* two tied
C16_Witness ==
    /\ last.op = "scan"
    /\ Len(last.overdue) = 3
    /\ last.overdue[1].name = "b"
    /\ last.overdue[1].overdue > last.overdue[2].overdue
    /\ last.overdue[2].overdue = last.overdue[3].overdue

\* the record the scan works on for schedule n: the one in the file, or the
\* initial one when there is no file
ScannedRecord(n) ==
    IF last.before[n].k = "absent" THEN InitialState(n, CronOf(config, n), last.at)
    ELSE RecordIn(last.before, n)

\* C17: a recurring schedule whose record is not running once stale jobs are
\* reconciled is in the list iff its next_run is non-null and now >= next_run;
\* its entry holds the time elapsed since next_run (0 when now = next_run) and
\* no schedule has two entries.
C17_OverdueMembership ==
    last.op = "scan" =>
        /\ \A n \in Recurring(config) :
              ~RunningNotStale(n) =>
                  /\ n \in OverdueNames(last.overdue) <=> Passed(ScannedRecord(n), last.at)
                  /\ \A i \in 1..Len(last.overdue) :
                        last.overdue[i].name = n =>
                            last.overdue[i].overdue = last.at - ScannedRecord(n).next_run.v
        /\ \A i, j \in 1..Len(last.overdue) :
              last.overdue[i].name = last.overdue[j].name => i = j

\* a scan at the very instant of next_run of a finished schedule, which also
\* selects a schedule whose running record was stale
C17_Witness ==
    /\ last.op = "scan"
    /\ last.before["a"].k = "json"
    /\ RecordIn(last.before, "a").status = "success"
    /\ RecordIn(last.before, "a").next_run = DT(last.at)
    /\ \E i \in 1..Len(last.overdue) : last.overdue[i] = Entry("a", 0)
    /\ last.before["b"].k = "json"
    /\ RecordIn(last.before, "b").status = "running"
    /\ \E i \in 1..Len(last.overdue) : last.overdue[i] = Entry("b", 30 * SecondsPerMinute)

----------------------------------------------------------------------------
(* Claims about the lifecycle transitions.                                  *)

\* the record operation l worked on: the one in the file before it, or the
\* initial one when there was no file
PriorRecord(l) ==
    IF l.before[l.name].k = "absent"
    THEN InitialState(l.name, CronOf(config, l.name), l.at)
    ELSE RecordIn(l.before, l.name)

\* C18: on_finish(success=true) leaves persisted status success, last_run
\* and finished_at equal to now, pid null and, for a recurring schedule,
\* next_run equal to the next trigger after now, which is later than now; the
\* scan that follows it before that next_run does not select the schedule.
C18_SuccessReschedules ==
    /\ (last.op = "on_finish" /\ last.success /\ last.exc = "none") =>
          /\ RecordIn(files, last.name).status = "success"
          /\ RecordIn(files, last.name).last_run = DT(last.at)
          /\ RecordIn(files, last.name).finished_at = DT(last.at)
          /\ RecordIn(files, last.name).pid = None
          /\ CronOf(config, last.name) # None =>
                /\ RecordIn(files, last.name).next_run
                      = DT(NextTrigger(CronOf(config, last.name), last.at))
                /\ RecordIn(files, last.name).next_run.v > last.at
    /\ (/\ last.op = "scan"
        /\ last.prev.op = "on_finish"
        /\ last.prev.success
        /\ last.prev.exc = "none") =>
          \A n \in Recurring(config) :
              last.at < NextTrigger(CronOf(config, n), last.prev.at) =>
                  n \notin OverdueNames(last.overdue)

\* a scan one minute after a successful on_finish that was called when the
\* schedule was overdue
C18_Witness ==
    /\ last.op = "scan"
    /\ last.prev.op = "on_finish"
    /\ last.prev.success
    /\ last.prev.exc = "none"
    /\ last.prev.at = 2 * SecondsPerMinute
    /\ last.at = 3 * SecondsPerMinute
    /\ files["a"].k = "json"
    /\ RecordIn(files, "a").status = "success"
    /\ RecordIn(files, "a").last_run = DT(last.prev.at)
    /\ RecordIn(files, "a").next_run = DT(4 * SecondsPerMinute)
    /\ last.overdue = <<>>

\* C19: on_finish(success=false) leaves the persisted record as it was
\* before the call (next_run, last_run and started_at included) except for
\* status = failed, finished_at = now and pid = null.
C19_FailureKeepsSchedule ==
    (last.op = "on_finish" /\ ~last.success /\ last.exc = "none") =>
        RecordIn(files, last.name) =
            [PriorRecord(last) EXCEPT !.status = "failed", !.finished_at = DT(last.at),
                                      !.pid = None]

\* a failure reported for a running record that has a last_run, a next_run in
\* the past and a started_at
C19_Witness ==
    /\ last.op = "on_finish"
    /\ ~last.success
    /\ last.exc = "none"
    /\ last.before[last.name].k = "json"
    /\ PriorRecord(last).status = "running"
    /\ PriorRecord(last).pid # None
    /\ PriorRecord(last).last_run # None
    /\ PriorRecord(last).started_at # None
    /\ Passed(PriorRecord(last), last.at)
    /\ RecordIn(files, last.name).next_run = PriorRecord(last).next_run

\* C20: on_start leaves the persisted record as it was before the call
\* (last_run and next_run included; the lazily created one when there was no
\* file) except for status = running, started_at = now, pid = the caller's
\* pid and finished_at = null.
C20_StartMarksRunning ==
    (last.op = "on_start" /\ last.exc = "none") =>
        RecordIn(files, last.name) =
            [PriorRecord(last) EXCEPT !.status = "running", !.started_at = DT(last.at),
                                      !.pid = IntV(last.pid), !.finished_at = None]

\* a start over a failed record that has a finished_at and a last_run
C20_Witness ==
    /\ last.op = "on_start"
    /\ last.exc = "none"
    /\ last.before[last.name].k = "json"
    /\ PriorRecord(last).status = "failed"
    /\ PriorRecord(last).finished_at # None
    /\ PriorRecord(last).last_run # None
    /\ PriorRecord(last).next_run # None
    /\ RecordIn(files, last.name).finished_at = None
    /\ RecordIn(files, last.name).pid = IntV(1)

----------------------------------------------------------------------------
(* Claims about unknown schedule names.                                     *)

\* C21: on_start and on_finish called with a name that is not configured
\* raise, reset called with such a name returns a non-zero code, and none of
\* them creates or changes a file of the store.
C21_UnknownNameRejected ==
    (last.op \in {"on_start", "on_finish", "reset"} /\ last.name \notin Configured(config)) =>
        /\ files = last.before
        /\ last.op \in {"on_start", "on_finish"} => last.exc # "none"
        /\ last.op = "reset" => (last.exc = "none" /\ last.rc # 0)

\* a reset of an unknown name on a store that holds a running record
C21_Witness ==
    /\ last.op = "reset"
    /\ last.name = "b"
    /\ last.rc = 1
    /\ files["a"].k = "json"
    /\ RecordIn(files, "a").status = "running"
    /\ files["b"] = FAbsent

----------------------------------------------------------------------------
(* Claims about the run command.                                            *)

\* C22: a run command that called on_start and ended without being killed
\* has called on_finish exactly once, with success = true only if no sync
\* raised and every profile succeeded, and the record it leaves is not
\* running.
C22_StartFinishPaired ==
    (last.op = "run" /\ last.started /\ ~last.killed) =>
        /\ last.finishes = 1
        /\ last.success =>
              /\ last.rc = 0
              /\ Len(last.results) = last.profiles
              /\ \A i \in 1..Len(last.results) : last.results[i]
        /\ RecordIn(files, last.name).status # "running"
        /\ RecordIn(files, last.name).pid = None

\* a run whose second profile raised after the first had succeeded
C22_Witness ==
    /\ last.op = "run"
    /\ last.started
    /\ ~last.killed
    /\ last.profiles = 2
    /\ last.results = <<TRUE>>
    /\ ~last.success
    /\ RecordIn(files, last.name).status = "failed"

\* C25: a run command called with dry_run leaves every file of the store as
\* it found it.
C25_DryRunLeavesStore ==
    (last.op = "run" /\ last.dry_run /\ ~last.killed) => last.unchanged

\* the record of n was running before the last scan and the process that
\* owned it no longer exists
OwnerDied(n) ==
    /\ last.before[n].k = "json"
    /\ RecordIn(last.before, n).status = "running"
    /\ RecordIn(last.before, n).pid # None
    /\ ~pid_exists(procs, RecordIn(last.before, n).pid.n)

\* C23: after a completed scan, the record of every configured schedule that
\* was running with an owner that died is persisted failed, with pid null
\* and finished_at set.
C23_DeadOwnerRecovered ==
    (last.op = "scan" /\ last.exc = "none") =>
        \A n \in Configured(config) :
            OwnerDied(n) =>
                /\ RecordIn(files, n).status = "failed"
                /\ RecordIn(files, n).pid = None
                /\ RecordIn(files, n).finished_at # None

\* C24: a reset of a configured schedule leaves the record first creation
\* would save at that instant: pending, last_run, started_at, finished_at and
\* pid null, next_run the next trigger after now, or null if manual.
C24_ResetAsFirstCreation ==
    (last.op = "reset" /\ last.name \in Configured(config) /\ last.exc = "none") =>
        /\ files[last.name].k = "json"
        /\ RecordIn(files, last.name)
             = InitialState(last.name, CronOf(config, last.name), last.at)

\* C28: in every persisted record of a configured schedule next_run is
\* non-null only if the schedule has a cron expression.
C28_NextRunOnlyIfRecurring ==
    \A n \in Configured(config) :
        (files[n].k = "json" /\ Persisted(n).next_run # None) => CronOf(config, n) # None

\* on_finish(success=true) of a manual schedule, whose record a reset had
\* left pending after an earlier success, has left next_run null
C28_Witness ==
    /\ last.op = "on_finish"
    /\ last.success
    /\ last.exc = "none"
    /\ CronOf(config, last.name) = None
    /\ last.before[last.name].k = "json"
    /\ RecordIn(last.before, last.name).status = "pending"
    /\ RecordIn(last.before, last.name).last_run # None
    /\ Persisted(last.name).status = "success"
    /\ Persisted(last.name).next_run = None

\* C29: a check invocation that found the lock free holds it, exclusively,
\* from its entry to its return, so no other process holds the lock while
\* that invocation scans and selects; a job holds no lock, so a check that
\* starts while a job is alive finds the lock free unless another process
\* holds it.
C29_CheckHoldsLockWhileScanning ==
    \A c \in Checkers : (chk[c].pc # "idle" /\ ~chk[c].locked) => ~lockHeld

\* C30: one cmd_check starts at most one job: when the scan returned a
\* non-empty list exactly one, for the first entry, which no entry exceeds
\* in overdue time; when it returned the empty list none; and it returns 0.
C30_AtMostOneSpawn ==
    last.op = "check" =>
        /\ last.exc = "none"
        /\ last.rc = 0
        /\ Cardinality({p \in Pids : jobs[p] # None}) = IF last.overdue = <<>> THEN 0 ELSE 1
        /\ \A p \in Pids :
              jobs[p] # None =>
                  /\ jobs[p].schedule = last.overdue[1].name
                  /\ \A i \in 1..Len(last.overdue) :
                        last.overdue[i].overdue <= last.overdue[1].overdue

\* three schedules overdue and one job started, for the last defined, which
\* is the most overdue
C30_Witness ==
    /\ last.op = "check"
    /\ last.rc = 0
    /\ Len(last.overdue) = 3
    /\ last.overdue[1].name = "b"
    /\ last.overdue[1].overdue > last.overdue[2].overdue
    /\ Cardinality({p \in Pids : jobs[p] # None}) = 1
    /\ \E p \in Pids : jobs[p] # None /\ jobs[p].schedule = "b"

\* C26: whatever the files of the configured schedules hold, cmd_status
\* raises nothing and prints the block of every configured schedule.
C26_StatusNeverFails ==
    last.op = "status" =>
        /\ last.exc = "none"
        /\ last.reported = [i \in 1..Len(config.schedules) |-> config.schedules[i].name]

\* C27: a load that runs while a save over an existing record is under way
\* returns the record the file held before the save or the record being
\* saved, and does not recreate the record.
C27_LoadDuringSaveConsistent ==
    (last.op = "load" /\ last.during # None /\ last.during.old.k = "json") =>
        /\ last.res.exc = "none"
        /\ ~last.res.saved
        /\ last.res.state \in {last.during.state, ParseState(last.during.old.v).val}

----------------------------------------------------------------------------
(* Claims about what a scan writes.                                         *)

\* the record of n was running and stale when the last scan found it
StaleFound(n) ==
    /\ last.before[n].k = "json"
    /\ RecordIn(last.before, n).status = "running"
    /\ ~RunningNotStale(n)

\* C31: a scan that finds the running record of a recurring schedule stale
\* leaves it with pid null and finished_at = now; if its next_run is non-null
\* and has passed the status left is pending and the schedule is in the
\* list, otherwise the status left is failed and the schedule is not in the
\* list.
C31_StaleReconciled ==
    last.op = "scan" =>
        \A n \in Recurring(config) :
            StaleFound(n) =>
                /\ RecordIn(files, n).pid = None
                /\ RecordIn(files, n).finished_at = DT(last.at)
                /\ IF Passed(RecordIn(last.before, n), last.at)
                   THEN /\ RecordIn(files, n).status = "pending"
                        /\ n \in OverdueNames(last.overdue)
                   ELSE /\ RecordIn(files, n).status = "failed"
                        /\ n \notin OverdueNames(last.overdue)

\* a scan that found "a" stale with a dead owner and next_run in the past,
\* and "b" stale with next_run still to come
C31_Witness ==
    /\ last.op = "scan"
    /\ StaleFound("a")
    /\ RecordIn(last.before, "a").pid = IntV(1)
    /\ ~procs[1].alive
    /\ RecordIn(last.before, "a").next_run # None
    /\ RecordIn(last.before, "a").next_run.v < last.at
    /\ RecordIn(files, "a").status = "pending"
    /\ "a" \in OverdueNames(last.overdue)
    /\ StaleFound("b")
    /\ RecordIn(last.before, "b").next_run # None
    /\ RecordIn(last.before, "b").next_run.v > last.at
    /\ RecordIn(files, "b").status = "failed"

----------------------------------------------------------------------------
(* Claims about failures of process inspection and signalling.              *)

\* the process named by the running record exists but cannot be inspected:
\* access is denied, or it exits between pid_exists and Process(pid)
Unreadable(state, race) ==
    /\ state.status = "running"
    /\ state.pid # None
    /\ state.started_at # None
    /\ pid_exists(procs, state.pid.n)
    /\ ~Inspectable(state, race)

\* the verified job has passed the timeout and exits before os.kill
GoneBeforeKill(state, race) ==
    /\ state.status = "running"
    /\ state.pid # None
    /\ state.started_at # None
    /\ pid_exists(procs, state.pid.n)
    /\ Inspectable(state, race)
    /\ Abs(procs[state.pid.n].create_time - state.started_at.v) <= StartTolerance
    /\ now - state.started_at.v > config.stale_job_timeout_hours * SecondsPerHour
    /\ race = "gone_before_kill"

\* C32: when the process cannot be inspected, or is gone when SIGTERM is
\* sent, the detector returns true having signalled nothing, and the pass of
\* the scan over such a record ends with the record no longer running and
\* its pid null.
C32_FailuresFoldedIntoStale ==
    (last.op \in {"stale", "pass"}
        /\ (Unreadable(last.state, last.race) \/ GoneBeforeKill(last.state, last.race))) =>
        /\ last.killed = <<>>
        /\ last.op = "stale" => last.ret
        /\ last.op = "pass" =>
              /\ RecordIn(files, "a").status \in {"failed", "pending"}
              /\ RecordIn(files, "a").pid = None
              /\ RecordIn(files, "a").finished_at = DT(now)

\* a pass over a record whose process psutil may not inspect
C32_Witness ==
    /\ last.op = "pass"
    /\ Unreadable(last.state, last.race)
    /\ procs[1].access = "denied"
    /\ last.race = "none"
    /\ RecordIn(files, "a").pid = None
    /\ procs[1].alive

----------------------------------------------------------------------------
(* Claims about repeated checks.                                            *)

\* the record of n is not running and its next_run has passed
IsOverdue(n) ==
    /\ files[n].k = "json"
    /\ RecordIn(files, n).status # "running"
    /\ Passed(RecordIn(files, n), now)

\* a job of schedule n has been spawned and has not ended
HasJob(n) == \E p \in Pids : jobs[p] # None /\ jobs[p].schedule = n

\* C33: with checks invoked repeatedly and every job starting and ending,
\* each recurring schedule that is overdue is eventually spawned, also when
\* the job of a more overdue schedule keeps failing.
C33_NoStarvation ==
    \A n \in {"a", "b"} : IsOverdue(n) ~> HasJob(n)

\* check c holds a copy of the record of schedule n that it loaded while the
\* job was running, and the job has since saved its success
LoadedBeforeSuccess(c, n) ==
    /\ chk[c].pc = "loaded"
    /\ config.schedules[chk[c].i].name = n
    /\ chk[c].state.status = "running"
    /\ files[n].k = "json"
    /\ RecordIn(files, n).status = "success"

\* C34: a scan that loaded the record while the job was running does not
\* overwrite the success that update_state_on_finish has saved since: the
\* rest of its pass leaves the record as on_finish wrote it.
C34_NoLostCompletion ==
    [][\A c \in Checkers : \A n \in Names :
           (LoadedBeforeSuccess(c, n) /\ chk'[c].pc # "loaded") => files'[n] = files[n]]_vars

\* the persisted record of schedule n before the scan that `last` describes
ScanPrior(n) == RecordIn(last.before, n)

\* C36: a scan changes last_run, next_run and started_at of no persisted
\* record, and rewrites an existing record only when it was running and found
\* stale (it becomes failed, or pending when its next_run has passed too) or
\* when it was failed with a next_run that has passed (it becomes pending); a
\* pending or success record stays as it was, overdue or not.
C36_ScanFrame ==
    last.op = "scan" =>
        \A n \in Names :
            last.before[n].k = "json" =>
                /\ files[n].k = "json"
                /\ Persisted(n).last_run = ScanPrior(n).last_run
                /\ Persisted(n).next_run = ScanPrior(n).next_run
                /\ Persisted(n).started_at = ScanPrior(n).started_at
                /\ files[n] # last.before[n] =>
                       \/ /\ ScanPrior(n).status = "running"
                          /\ Persisted(n).status =
                                 IF Passed(ScanPrior(n), last.at) THEN "pending" ELSE "failed"
                       \/ /\ ScanPrior(n).status = "failed"
                          /\ Passed(ScanPrior(n), last.at)
                          /\ Persisted(n).status = "pending"
                /\ ScanPrior(n).status \in {"pending", "success"} => files[n] = last.before[n]

\* a scan that reports a success record as overdue and leaves its file as it
\* was, last_run and started_at included
C36_Witness ==
    /\ last.op = "scan"
    /\ last.before["a"].k = "json"
    /\ ScanPrior("a").status = "success"
    /\ ScanPrior("a").last_run # None
    /\ ScanPrior("a").started_at # None
    /\ "a" \in OverdueNames(last.overdue)
    /\ files["a"] = last.before["a"]

----------------------------------------------------------------------------
(* The life of a record: runs of the configured schedule, each calling      *)
(* update_state_on_start and then, unless it is killed, update_state_on_    *)
(* finish, with load_state, get_overdue_schedules and cmd_reset called by   *)
(* other processes at any moment in between, from an empty state directory. *)

\* "android-sync run <schedule>" is started, by hand or by a check
LifeRun ==
    \E p \in ApiPids, n \in Configured(config) :
        /\ jobs[p] = None
        /\ Spawned(p, n)
        /\ UNCHANGED <<now, config, files, lockHeld, chk, last>>

NextLife ==
    \/ Tick
    \/ LifeRun
    \/ \E p \in ApiPids : RunBegin(p)
    \/ \E p \in ApiPids : RunEnd(p)
    \/ \E p \in ApiPids : RunKilled(p)
    \/ ApiLoad
    \/ ApiScan
    \/ ApiReset

SpecLife == InitApi /\ [][NextLife]_vars

\* C37: a persisted record with finished_at set has started_at set, and not
\* later than finished_at.
C37_FinishedAfterStarted ==
    \A n \in Names :
        (files[n].k = "json" /\ Persisted(n).finished_at # None) =>
            /\ Persisted(n).started_at # None
            /\ Persisted(n).finished_at.v >= Persisted(n).started_at.v

\* the persisted status of schedule n, "none" when it has no record
StatusIn(fs, n) == IF fs[n].k = "json" THEN RecordIn(fs, n).status ELSE "none"

\* the step is update_state_on_start of a run
IsOnStart == \E p \in ApiPids : jobs[p] # None /\ jobs[p].phase = "spawned"
                                  /\ jobs'[p] # None /\ jobs'[p].phase = "running"

\* the step is a scan or a reset
IsScanOrReset == last' # last /\ last'.op \in {"scan", "reset"}

\* C38: the status of a record becomes success or failed only from running,
\* becomes running only by on_start, and goes from failed to pending only by
\* a scan or a reset.
C38_StatusLifecycle ==
    [][\A n \in Names :
          /\ (StatusIn(files', n) \in {"success", "failed"}
                 /\ StatusIn(files', n) # StatusIn(files, n))
               => StatusIn(files, n) = "running"
          /\ (StatusIn(files', n) = "running" /\ StatusIn(files, n) # "running") => IsOnStart
          /\ (StatusIn(files, n) = "failed" /\ StatusIn(files', n) = "pending")
               => IsScanOrReset]_vars

----------------------------------------------------------------------------
(* One operation on a store of three schedules whose files hold any of a    *)
(* few records, no record, or content that load_state cannot read: a        *)
(* load_state, save_state, update_state_on_start, update_state_on_finish or *)
(* cmd_reset of one schedule, or one pass of the loop of                    *)
(* get_overdue_schedules, whose load_state runs at the current instant,     *)
(* not earlier than the instant the scan took as now.                       *)

FrameConfig ==
    Config(<<Schedule("a", EveryMinute), Schedule("b", EveryOtherMinute), Schedule("m", None)>>,
           DefaultTimeoutHours)

FrameStates(name) ==
    {ScheduleState(name, None, DT(ScanInstant - 30 * SecondsPerMinute), st, None, None, None) :
        st \in {"pending", "failed"}}
    \cup {ScheduleState(name, DT(ScanInstant), DT(ScanInstant + SecondsPerMinute), "success",
                        DT(ScanInstant), DT(ScanInstant), None),
          ScheduleState(name, None, DT(ScanInstant), "running", DT(ScanInstant), None, IntV(1))}

\* a file whose object lacks the key "status"
NoStatusFile(name) ==
    FJson(ObjectOf([schedule |-> JStr(<<name>>), last_run |-> JNull, next_run |-> JNull,
                    status |-> Missing, started_at |-> JNull, finished_at |-> JNull,
                    pid |-> JNull]))

FrameFiles(name) ==
    {FAbsent, FText, NoStatusFile(name)} \cup {FJson(StateToJson(st)) : st \in FrameStates(name)}

InitFrame ==
    /\ now = ScanInstant
    /\ config = FrameConfig
    /\ \E fa \in FrameFiles("a"), fb \in FrameFiles("b"), fm \in FrameFiles("m") :
         files = [n \in Names |-> IF n = "a" THEN fa ELSE IF n = "b" THEN fb ELSE fm]
    /\ \E pr \in {NoProc, Proc(ScanInstant, "ok")} :
         procs = [p \in Pids |-> IF p = 1 THEN pr ELSE NoProc]
    /\ lockHeld = FALSE
    /\ chk = NoChecks
    /\ jobs = [p \in Pids |-> None]
    /\ last = [op |-> "init"]

FrameLoad == last.op = "init" /\ ApiLoad
FrameOnStart == last.op = "init" /\ ApiOnStart
FrameOnFinish == last.op = "init" /\ ApiOnFinish
FrameReset == last.op = "init" /\ ApiReset

FrameSave ==
    /\ last.op = "init"
    /\ \E n \in Configured(config) :
         \E state \in FrameStates(n) :
             /\ files' = save_state(files, state)
             /\ last' = [op |-> "save", name |-> n, at |-> now, before |-> files, exc |-> "none"]
    /\ UNCHANGED <<now, config, procs, lockHeld, chk, jobs>>

\* the result of a scan that has made no pass yet
NoPass(fs) == [exc |-> "none", fs |-> fs, overdue |-> <<>>, killed |-> <<>>]

FramePassDone(sd, t, r) ==
    /\ files' = r.fs
    /\ procs' = Terminate(procs, r.killed)
    /\ last' = [op |-> "pass", name |-> sd.name, at |-> t, before |-> files, exc |-> r.exc,
                overdue |-> r.overdue]
    /\ UNCHANGED <<now, config, lockHeld, chk, jobs>>

\* one pass of the loop, for any schedule, of a scan that took t as now
FramePass ==
    /\ last.op = "init"
    /\ \E i \in 1..Len(config.schedules), t \in {now - SecondsPerMinute, now} :
         FramePassDone(config.schedules[i], t,
                       IF config.schedules[i].cron = None THEN NoPass(files)
                       ELSE ScanLoaded(config, config.schedules[i], NoPass(files),
                                       load_state(files, config.schedules[i].name,
                                                  config.schedules[i].cron, now),
                                       procs, t))

NextFrame ==
    \/ FrameLoad
    \/ FrameOnStart
    \/ FrameOnFinish
    \/ FrameReset
    \/ FrameSave
    \/ FramePass

SpecFrame == InitFrame /\ [][NextFrame]_vars

\* C35: an operation on the record of one schedule, a pass of the scan
\* included, leaves the file of every other schedule as it was: it creates,
\* changes and deletes none.
C35_RecordIndependence ==
    last.op \in {"load", "save", "on_start", "on_finish", "reset", "pass"} =>
        \A k \in Names \ {last.name} : files[k] = last.before[k]

\* the pass for "a" turns its stale running record into failed while the
\* failed record of "b", whose next_run has passed too, stays as it was
C35_Witness ==
    /\ last.op = "pass"
    /\ last.name = "a"
    /\ last.before["a"] = FJson(StateToJson(
           ScheduleState("a", None, DT(ScanInstant), "running", DT(ScanInstant), None, IntV(1))))
    /\ files["a"] # last.before["a"]
    /\ last.before["b"] = FJson(StateToJson(
           ScheduleState("b", None, DT(ScanInstant - 30 * SecondsPerMinute), "failed",
                         None, None, None)))
    /\ files["b"] = last.before["b"]

\* the pass found no record it could read and load_state created one
LazilyCreated ==
    /\ last.op = "pass"
    /\ last.exc = "none"
    /\ CronOf(config, last.name) # None
    /\ last.before[last.name].k = "absent" \/ Malformed(last.before[last.name])

\* C39: the pass of a scan that creates the record of a recurring schedule,
\* or creates it anew over a file it cannot read, reports no overdue entry for
\* it: the next_run it saves is later than the instant the scan took as now.
C39_CreatedNotOverdue ==
    LazilyCreated =>
        /\ files[last.name].k = "json"
        /\ Persisted(last.name).status = "pending"
        /\ Persisted(last.name).next_run # None
        /\ Persisted(last.name).next_run.v > last.at
        /\ last.overdue = <<>>

\* a record created anew over unreadable text by a scan whose now is the
\* instant of the load, a minute boundary
C39_Witness ==
    /\ LazilyCreated
    /\ last.before[last.name] = FText
    /\ last.at = now
    /\ files[last.name].k = "json"
    /\ Persisted(last.name).next_run = DT(now + SecondsPerMinute)

====
